---- MODULE Spec2Model ----
(***************************************************************************)
(* Authorization core of Allo: token service (utils/auth.rs), identity     *)
(* resolution (middleware/permission.rs) and the team-management handlers  *)
(* (handlers/team.rs) over the users / roles / user_roles / audit_logs     *)
(* tables.                                                                 *)
(*                                                                         *)
(* Spec       the team-management handlers, one action per handler, the    *)
(*            clock standing still at Epoch0;                              *)
(* SpecToken  the token service: create_token, the clock, verify_token.    *)
(***************************************************************************)
EXTENDS Integers, Sequences, FiniteSets, TLC

\* ------------------------------------------------------------------ bounds
\* users the store ever holds (ids 1..MaxUsers, the seeded admin is 1)
MaxUsers == 2
\* roles the store ever holds (ids RoleBase+1..RoleBase+MaxRoles)
MaxRoles == 2
\* audit entries (= successful mutations) in one behaviour
MaxAudit == 2
\* clock ticks in one behaviour of SpecToken
MaxTicks == 4
\* session rows the store ever holds in SpecToken
MaxSessions == 1
\* requests in flight at once in SpecConc
MaxProcs == 2
\* the clock's first value, epoch seconds
Epoch0 == 200000
\* ids of roles start above every user id (both are UUIDs in the program)
RoleBase == 10

\* ------------------------------------------------------- program constants
\* Duration::hours(24), in seconds
TokenLifetime == 86400
\* Validation::default(): leeway of 60 seconds on exp
Leeway == 60
\* create_user: password.len() < 6 is rejected
MinPasswordLen == 6

\* ------------------------------------------------------------ Option, Result
None == <<>>
Some(x) == <<x>>
Unwrap(o) == o[1]

Ok(v) == [ok |-> TRUE, val |-> <<v>>, err |-> "none"]
Err(e) == [ok |-> FALSE, val |-> <<>>, err |-> e]

Range(s) == {s[i] : i \in DOMAIN s}

\* --------------------------------------------------------------- Uuid, text
\* A string is a record: uuid-shaped text carrying the id it spells, or other
\* text. Uuid::to_string and Uuid::parse_str convert between ids and strings.
Uuid_to_string(u) == [hex |-> TRUE, n |-> u]
Uuid_parse_str(s) == IF s.hex THEN Ok(s.n) ELSE Err("InvalidUuid")
NotAUuid == [hex |-> FALSE, n |-> 0]

UserIds == 1..MaxUsers
RoleIds == (RoleBase + 1)..(RoleBase + MaxRoles)
SuperAdminEmail == "andrew.davis@habb.tech"
Emails == {SuperAdminEmail, "sam@habb.tech"}

\* --------------------------------------------------------- utils/auth.rs
JWT_SECRET == "server-secret"

\* HMAC of a payload under a key: equal exactly for equal key and payload
HS256(key, payload) == [key |-> key, msg |-> payload]

Claims_new_minutes(user_id, email, t) ==
    [sub |-> Uuid_to_string(user_id), email |-> email,
     exp |-> t + 24 * 60, iat |-> t]

\* Claims::new at clock value t
Claims_new(user_id, email, t) ==
    [sub |-> Uuid_to_string(user_id), email |-> email,
     exp |-> t + TokenLifetime, iat |-> t]

\* jsonwebtoken::encode: the claims, signed
encode(claims, secret) ==
    [wellformed |-> TRUE, payload |-> claims, mac |-> HS256(secret, claims)]

create_token(user_id, email, t) == encode(Claims_new(user_id, email, t), JWT_SECRET)

\* jsonwebtoken::decode under Validation::default() at clock value t:
\* structure, signature, then exp with the default leeway
decode(token, secret, t) ==
    IF ~token.wellformed THEN Err("InvalidToken")
    ELSE IF token.mac # HS256(secret, token.payload) THEN Err("InvalidSignature")
    ELSE IF token.payload.exp < t - Leeway THEN Err("ExpiredSignature")
    ELSE Ok(token.payload)

verify_token(token, t) == decode(token, JWT_SECRET, t)

\* text that is no token
MalformedToken ==
    [wellformed |-> FALSE, payload |-> Claims_new(0, "none", 0),
     mac |-> HS256("none", Claims_new(0, "none", 0))]

\* a token signed with another key, naming user 2
ForgedToken == encode(Claims_new(2, "sam@habb.tech", Epoch0 - 3600), "attacker-secret")

\* a token signed with the server's key whose subject is not a UUID
BadSubjectToken ==
    encode([Claims_new(2, "sam@habb.tech", Epoch0 - 3600) EXCEPT !.sub = NotAUuid],
           JWT_SECRET)

\* ------------------------------------------------------------------- state
VARIABLES
    users,        \* users table: id -> row
    roles,        \* roles table: id -> row
    user_roles,   \* user_roles table: set of rows
    audit_logs,   \* audit_logs table, in insertion order
    nextUserId,   \* the id the store gives the next inserted user
    nextRoleId,   \* the id the store gives the next inserted role
    now,          \* the clock, epoch seconds
    ticks,        \* clock ticks taken so far
    jar,          \* the browser's auth_token cookie: None or Some(token)
    minted,       \* the arguments of the create_token call that filled the jar
    vres,         \* the verify_token call being answered: token, time, result
    resp,         \* the last team-management request and its response
    sessions,     \* sessions table, in insertion order
    req,          \* the requests being served step by step: process -> locals
    fetched,      \* the Vec<String> of permissions the last query helper returned
    set_cookie    \* the Set-Cookie header of the response being sent

store == <<users, roles, user_roles, audit_logs, nextUserId, nextRoleId>>
vars == <<users, roles, user_roles, audit_logs, nextUserId, nextRoleId,
          now, ticks, jar, minted, vres, resp, sessions, req, fetched, set_cookie>>

\* ------------------------------------------------------------ request inputs
TeamRead == "team:read"
TeamWrite == "team:write"
TeamDelete == "team:delete"
TeamManageRoles == "team:manage_roles"

\* the role forms submitted: permissions are checkbox values in submitted
\* order, and a list may repeat a key; is_active is the checkbox being present
CustomerPermissions == <<"customers:read", "customers:write">>
RoleForms ==
    { [name |-> "Sales", permissions |-> CustomerPermissions, is_active |-> TRUE],
      [name |-> "Sales", permissions |-> <<TeamWrite, TeamRead, TeamWrite>>, is_active |-> TRUE],
      [name |-> "Sales", permissions |-> CustomerPermissions, is_active |-> FALSE],
      [name |-> "Admin", permissions |-> <<TeamRead>>, is_active |-> TRUE],
      [name |-> "Admin", permissions |-> <<TeamDelete, TeamManageRoles>>, is_active |-> TRUE],
      [name |-> "Admin", permissions |-> <<TeamWrite, TeamManageRoles>>, is_active |-> FALSE] }

GoodPassword == <<"s", "e", "c", "r", "e", "t">>
ShortPassword == <<"s", "e", "c", "r", "t">>
hash_password(p) == [bcrypt |-> p]

\* the user forms submitted: role_ids are strings, some not UUIDs, some
\* repeated, some naming no role
FirstRole == Uuid_to_string(RoleBase + 1)
SecondRole == Uuid_to_string(RoleBase + 2)
UserForms ==
    { [email |-> "sam@habb.tech", password |-> Some(GoodPassword),
       role_ids |-> <<>>, is_active |-> TRUE],
      [email |-> "sam@habb.tech", password |-> Some(GoodPassword),
       role_ids |-> <<SecondRole, NotAUuid, SecondRole>>, is_active |-> TRUE],
      [email |-> "sam@habb.tech", password |-> Some(ShortPassword),
       role_ids |-> <<FirstRole>>, is_active |-> TRUE],
      [email |-> "sam@habb.tech", password |-> None,
       role_ids |-> <<FirstRole>>, is_active |-> FALSE],
      [email |-> SuperAdminEmail, password |-> None,
       role_ids |-> <<FirstRole, SecondRole>>, is_active |-> TRUE] }

\* the auth_token cookie of a request: absent, a token login issued an hour
\* ago to user u, a token whose 24 hours (and leeway) have passed
TokenEmail(u) == IF u = 1 THEN SuperAdminEmail ELSE "sam@habb.tech"
LiveToken(u) == create_token(u, TokenEmail(u), Epoch0 - 3600)
StaleToken(u) == create_token(u, TokenEmail(u), Epoch0 - TokenLifetime - Leeway - 1)
Cookies ==
    {None} \cup {Some(LiveToken(u)) : u \in UserIds}
           \cup {Some(StaleToken(MaxUsers))}

\* ------------------------------------------------- middleware/permission.rs
get_user_permissions_any_user(user_id) ==
    LET joined == {p \in (DOMAIN roles) \X user_roles :
                      p[1] = p[2].role_id /\ roles[p[1]].is_active}
    IN  UNION {Range(roles[p[1]].permissions) : p \in joined}

get_user_permissions_any_role(user_id) ==
    LET joined == {p \in (DOMAIN roles) \X user_roles :
                      p[1] = p[2].role_id /\ p[2].user_id = user_id}
    IN  UNION {Range(roles[p[1]].permissions) : p \in joined}

\* get_user_permissions: the rows of
\*   SELECT DISTINCT jsonb_array_elements_text(r.permissions)
\*   FROM roles r JOIN user_roles ur ON r.id = ur.role_id
\*   WHERE ur.user_id = $1 AND r.is_active = true
\* (their order is the store's and is not modelled)
get_user_permissions(user_id) ==
    LET joined == {p \in (DOMAIN roles) \X user_roles :
                      /\ p[1] = p[2].role_id
                      /\ p[2].user_id = user_id
                      /\ roles[p[1]].is_active}
    IN  UNION {Range(roles[p[1]].permissions) : p \in joined}

from_user_and_permissions_delete_by_write(user, permissions) ==
    [id |-> user.id, email |-> user.email,
     is_active |-> user.is_active, is_locked |-> user.is_locked,
     permissions |-> permissions,
     has_team_read |-> TeamRead \in permissions,
     has_team_write |-> TeamWrite \in permissions,
     has_team_delete |-> TeamWrite \in permissions,
     has_manage_roles |-> TeamManageRoles \in permissions]

from_user_and_permissions_write_by_read(user, permissions) ==
    [id |-> user.id, email |-> user.email,
     is_active |-> user.is_active, is_locked |-> user.is_locked,
     permissions |-> permissions,
     has_team_read |-> TeamRead \in permissions,
     has_team_write |-> TeamRead \in permissions,
     has_team_delete |-> TeamDelete \in permissions,
     has_manage_roles |-> TeamManageRoles \in permissions]

\* CurrentUser::from_user_and_permissions
from_user_and_permissions(user, permissions) ==
    [id |-> user.id, email |-> user.email,
     is_active |-> user.is_active, is_locked |-> user.is_locked,
     permissions |-> permissions,
     has_team_read |-> TeamRead \in permissions,
     has_team_write |-> TeamWrite \in permissions,
     has_team_delete |-> TeamDelete \in permissions,
     has_manage_roles |-> TeamManageRoles \in permissions]

\* get_super_admin_user: the fixed account, if active and unlocked
get_super_admin_user ==
    LET found == {id \in DOMAIN users :
                     /\ users[id].email = SuperAdminEmail
                     /\ users[id].is_active
                     /\ ~users[id].is_locked}
    IN  IF found = {} THEN None
        ELSE LET id == CHOOSE i \in found : TRUE
             IN  Some(from_user_and_permissions(users[id], get_user_permissions(id)))

\* get_user_by_id: the user, if active and unlocked
get_user_by_id(user_id) ==
    IF /\ user_id \in DOMAIN users
       /\ users[user_id].is_active
       /\ ~users[user_id].is_locked
    THEN Some(from_user_and_permissions(users[user_id], get_user_permissions(user_id)))
    ELSE None

get_current_user_default_admin(cookie) ==
    IF cookie = None THEN get_super_admin_user
    ELSE LET claims == verify_token(Unwrap(cookie), now)
         IN  IF ~claims.ok THEN get_super_admin_user
             ELSE LET user_id == Uuid_parse_str(Unwrap(claims.val).sub)
                  IN  IF ~user_id.ok THEN get_super_admin_user
                      ELSE get_user_by_id(Unwrap(user_id.val))

get_current_user_fallback_when_missing(cookie) ==
    IF cookie = None THEN None
    ELSE LET claims == verify_token(Unwrap(cookie), now)
         IN  IF ~claims.ok THEN get_super_admin_user
             ELSE LET user_id == Uuid_parse_str(Unwrap(claims.val).sub)
                  IN  IF ~user_id.ok THEN get_super_admin_user
                      ELSE IF get_user_by_id(Unwrap(user_id.val)) = None
                           THEN get_super_admin_user
                           ELSE get_user_by_id(Unwrap(user_id.val))

\* get_current_user: cookie -> Option<CurrentUser>
get_current_user(cookie) ==
    IF cookie = None THEN None
    ELSE LET claims == verify_token(Unwrap(cookie), now)
         IN  IF ~claims.ok THEN get_super_admin_user
             ELSE LET user_id == Uuid_parse_str(Unwrap(claims.val).sub)
                  IN  IF ~user_id.ok THEN get_super_admin_user
                      ELSE get_user_by_id(Unwrap(user_id.val))

\* -------------------------------------------------------------------- Init
AdminPermissions == <<TeamRead, TeamWrite, TeamDelete, TeamManageRoles>>

NoResp == [op |-> "none", cookie |-> None, identity |-> None,
           target |-> None, form |-> None, status |-> "none"]
NoVres == [token |-> MalformedToken, at |-> 0, result |-> Err("none"), called |-> FALSE]

\* a process serving no request yet: the locals of a handler
Procs == 1..MaxProcs
Idle == [pc |-> "idle", op |-> "none", cookie |-> None, target |-> None,
         form |-> None, user |-> None, identity |-> None, status |-> "none",
         todo |-> <<>>, found |-> None, audited |-> "none", failed |-> FALSE]

\* the seeded store: the super admin account holding the Admin role
InitStore ==
    /\ users = (1 :> [id |-> 1, email |-> SuperAdminEmail,
                      password_hash |-> hash_password(GoodPassword),
                      is_active |-> TRUE, is_locked |-> FALSE,
                      locked_at |-> None, locked_by |-> None])
    /\ roles = ((RoleBase + 1) :>
                   [id |-> RoleBase + 1, name |-> "Admin",
                    permissions |-> AdminPermissions, is_active |-> TRUE,
                    created_by |-> None])
    /\ user_roles = {[user_id |-> 1, role_id |-> RoleBase + 1,
                      assigned_at |-> Epoch0, assigned_by |-> None]}
    /\ audit_logs = <<>>
    /\ nextUserId = 2
    /\ nextRoleId = RoleBase + 2

Init ==
    /\ InitStore
    /\ now = Epoch0
    /\ ticks = 0
    /\ jar = None
    /\ minted = None
    /\ vres = NoVres
    /\ resp = NoResp
    /\ sessions = <<>>
    /\ req = [p \in Procs |-> Idle]
    /\ fetched = None
    /\ set_cookie = None

\* ------------------------------------------------------- handlers/team.rs
\* the request as received and the status answered
Reply(op, cookie, identity, target, form, status) ==
    resp' = [op |-> op, cookie |-> cookie, identity |-> identity,
             target |-> target, form |-> form, status |-> status]

\* a return that has written nothing
ReadOnly(op, cookie, identity, target, form, status) ==
    /\ Reply(op, cookie, identity, target, form, status)
    /\ UNCHANGED store

\* variant: the row is written without its resource_id
create_audit_log_without_target(log, user_id, action, resource_type, resource_id) ==
    Append(log, [user_id |-> user_id, action |-> action,
                 resource_type |-> resource_type, resource_id |-> None])

\* create_audit_log: one row appended
create_audit_log(log, user_id, action, resource_type, resource_id) ==
    Append(log, [user_id |-> user_id, action |-> action,
                 resource_type |-> resource_type, resource_id |-> resource_id])

\* INSERT INTO user_roles (user_id, role_id, assigned_by): the row is refused
\* when the user or the role does not exist or the pair is already there
insert_user_role(rows, us, user_id, role_id, assigned_by) ==
    IF /\ user_id \in DOMAIN us
       /\ role_id \in DOMAIN roles
       /\ ~\E r \in rows : r.user_id = user_id /\ r.role_id = role_id
    THEN rows \cup {[user_id |-> user_id, role_id |-> role_id,
                     assigned_at |-> now, assigned_by |-> Some(assigned_by)]}
    ELSE rows

\* variant: one malformed id in the list and nothing is assigned
assign_roles_all_or_nothing(rows, us, user_id, role_ids, assigned_by) ==
    LET Insert[i \in 0..Len(role_ids)] ==
            IF i = 0 THEN rows
            ELSE insert_user_role(Insert[i - 1], us, user_id,
                                  Unwrap(Uuid_parse_str(role_ids[i]).val), assigned_by)
    IN  IF \E i \in DOMAIN role_ids : ~Uuid_parse_str(role_ids[i]).ok THEN rows
        ELSE Insert[Len(role_ids)]

\* for role_id_str in form.role_ids { if let Ok(role_id) = parse { let _ = INSERT } }
RECURSIVE assign_roles(_, _, _, _, _)
assign_roles(rows, us, user_id, role_ids, assigned_by) ==
    IF role_ids = <<>> THEN rows
    ELSE LET parsed == Uuid_parse_str(Head(role_ids))
             next == IF parsed.ok
                     THEN insert_user_role(rows, us, user_id, Unwrap(parsed.val), assigned_by)
                     ELSE rows
         IN  assign_roles(next, us, user_id, Tail(role_ids), assigned_by)

\* the email of another row: the unique index on users.email refuses it
email_taken(email, except) ==
    \E id \in DOMAIN users : id # except /\ users[id].email = email
\* the name of another row: the unique index on roles.name refuses it
name_taken(name, except) ==
    \E id \in DOMAIN roles : id # except /\ roles[id].name = name

is_self_never(current_user, user_id) == FALSE

\* current_user.id == user_id
is_self(current_user, user_id) == current_user.id = user_id

delete_user_roles_none(rows, user_id) == rows

\* DELETE FROM user_roles WHERE user_id = $1
delete_user_roles(rows, user_id) == {r \in rows : r.user_id # user_id}

\* requests are served one at a time: a handler starts when the previous
\* response has been sent, and leaves the clock and the browser alone
Request ==
    /\ resp = NoResp
    /\ UNCHANGED <<now, ticks, jar, minted, vres, sessions, req, fetched, set_cookie>>

\* the response goes out to the client
send_response ==
    /\ resp # NoResp
    /\ resp' = NoResp
    /\ set_cookie' = None
    /\ UNCHANGED <<store, now, ticks, jar, minted, vres, sessions, req, fetched>>

team_dashboard(cookie) ==
    LET current_user == get_current_user(cookie)
        R(status) == ReadOnly("team_dashboard", cookie, current_user, None, None, status)
    IN  /\ Request
        /\ IF current_user = None THEN R("UNAUTHORIZED")
           ELSE IF ~Unwrap(current_user).has_team_read THEN R("FORBIDDEN")
           ELSE R("OK")

users_list(cookie) ==
    LET current_user == get_current_user(cookie)
        R(status) == ReadOnly("users_list", cookie, current_user, None, None, status)
    IN  /\ Request
        /\ IF current_user = None THEN R("UNAUTHORIZED")
           ELSE IF ~Unwrap(current_user).has_team_read THEN R("FORBIDDEN")
           ELSE R("OK")

user_form(cookie) ==
    LET current_user == get_current_user(cookie)
        R(status) == ReadOnly("user_form", cookie, current_user, None, None, status)
    IN  /\ Request
        /\ IF current_user = None THEN R("UNAUTHORIZED")
           ELSE IF ~Unwrap(current_user).has_team_write THEN R("FORBIDDEN")
           ELSE R("OK")

user_edit_form(cookie, user_id) ==
    LET current_user == get_current_user(cookie)
        R(status) == ReadOnly("user_edit_form", cookie, current_user, Some(user_id), None, status)
    IN  /\ Request
        /\ IF current_user = None THEN R("UNAUTHORIZED")
           ELSE IF ~Unwrap(current_user).has_team_write THEN R("FORBIDDEN")
           ELSE IF user_id \notin DOMAIN users THEN R("NOT_FOUND")
           ELSE R("OK")

create_user(cookie, form) ==
    LET current_user == get_current_user(cookie)
        R(status) == ReadOnly("create_user", cookie, current_user, None, Some(form), status)
        me == Unwrap(current_user).id
        id == nextUserId
        row == [id |-> id, email |-> form.email,
                password_hash |-> hash_password(Unwrap(form.password)),
                is_active |-> form.is_active, is_locked |-> FALSE,
                locked_at |-> None, locked_by |-> None]
        us == (id :> row) @@ users
    IN  /\ Request
        /\ IF current_user = None THEN R("UNAUTHORIZED")
           ELSE IF ~Unwrap(current_user).has_team_write THEN R("FORBIDDEN")
           ELSE IF form.password = None THEN R("BAD_REQUEST")
           ELSE IF Len(Unwrap(form.password)) < MinPasswordLen THEN R("BAD_REQUEST")
           ELSE IF email_taken(form.email, id) THEN R("INTERNAL_SERVER_ERROR")
           ELSE /\ id <= MaxUsers
                /\ users' = us
                /\ nextUserId' = id + 1
                /\ user_roles' = assign_roles(user_roles, us, id, form.role_ids, me)
                /\ audit_logs' = create_audit_log(audit_logs, me, "create", "user", Some(id))
                /\ Len(audit_logs') <= MaxAudit
                /\ UNCHANGED <<roles, nextRoleId>>
                /\ Reply("create_user", cookie, current_user, None, Some(form), "SEE_OTHER")

update_user(cookie, user_id, form) ==
    LET current_user == get_current_user(cookie)
        R(status) == ReadOnly("update_user", cookie, current_user, Some(user_id), Some(form), status)
        me == Unwrap(current_user).id
        new_hash == /\ form.password # None
                    /\ Len(Unwrap(form.password)) >= MinPasswordLen
        us == IF user_id \in DOMAIN users
              THEN [users EXCEPT ![user_id].email = form.email,
                                 ![user_id].is_active = form.is_active,
                                 ![user_id].password_hash =
                                     IF new_hash THEN hash_password(Unwrap(form.password))
                                     ELSE @]
              ELSE users
        deleted == delete_user_roles(user_roles, user_id)
    IN  /\ Request
        /\ IF current_user = None THEN R("UNAUTHORIZED")
           ELSE IF ~Unwrap(current_user).has_team_write THEN R("FORBIDDEN")
           ELSE IF user_id \in DOMAIN users /\ email_taken(form.email, user_id)
                THEN R("INTERNAL_SERVER_ERROR")
           ELSE /\ users' = us
                /\ user_roles' = assign_roles(deleted, us, user_id, form.role_ids, me)
                /\ audit_logs' = create_audit_log(audit_logs, me, "update", "user", Some(user_id))
                /\ Len(audit_logs') <= MaxAudit
                /\ UNCHANGED <<roles, nextUserId, nextRoleId>>
                /\ Reply("update_user", cookie, current_user, Some(user_id), Some(form), "SEE_OTHER")

\* variant: the UPDATE sets is_locked and locked_at only
lock_user_without_locked_by(cookie, user_id) ==
    LET current_user == get_current_user(cookie)
        R(status) == ReadOnly("lock_user", cookie, current_user, Some(user_id), None, status)
        me == Unwrap(current_user).id
    IN  /\ Request
        /\ IF current_user = None THEN R("UNAUTHORIZED")
           ELSE IF ~Unwrap(current_user).has_team_write THEN R("FORBIDDEN")
           ELSE IF is_self(Unwrap(current_user), user_id) THEN R("BAD_REQUEST")
           ELSE /\ users' = IF user_id \in DOMAIN users
                            THEN [users EXCEPT ![user_id].is_locked = TRUE,
                                               ![user_id].locked_at = Some(now)]
                            ELSE users
                /\ audit_logs' = create_audit_log(audit_logs, me, "lock", "user", Some(user_id))
                /\ Len(audit_logs') <= MaxAudit
                /\ UNCHANGED <<roles, user_roles, nextUserId, nextRoleId>>
                /\ Reply("lock_user", cookie, current_user, Some(user_id), None, "SEE_OTHER")

lock_user(cookie, user_id) ==
    LET current_user == get_current_user(cookie)
        R(status) == ReadOnly("lock_user", cookie, current_user, Some(user_id), None, status)
        me == Unwrap(current_user).id
    IN  /\ Request
        /\ IF current_user = None THEN R("UNAUTHORIZED")
           ELSE IF ~Unwrap(current_user).has_team_write THEN R("FORBIDDEN")
           ELSE IF is_self(Unwrap(current_user), user_id) THEN R("BAD_REQUEST")
           ELSE /\ users' = IF user_id \in DOMAIN users
                            THEN [users EXCEPT ![user_id].is_locked = TRUE,
                                               ![user_id].locked_at = Some(now),
                                               ![user_id].locked_by = Some(me)]
                            ELSE users
                /\ audit_logs' = create_audit_log(audit_logs, me, "lock", "user", Some(user_id))
                /\ Len(audit_logs') <= MaxAudit
                /\ UNCHANGED <<roles, user_roles, nextUserId, nextRoleId>>
                /\ Reply("lock_user", cookie, current_user, Some(user_id), None, "SEE_OTHER")

unlock_user(cookie, user_id) ==
    LET current_user == get_current_user(cookie)
        R(status) == ReadOnly("unlock_user", cookie, current_user, Some(user_id), None, status)
        me == Unwrap(current_user).id
    IN  /\ Request
        /\ IF current_user = None THEN R("UNAUTHORIZED")
           ELSE IF ~Unwrap(current_user).has_team_write THEN R("FORBIDDEN")
           ELSE /\ users' = IF user_id \in DOMAIN users
                            THEN [users EXCEPT ![user_id].is_locked = FALSE,
                                               ![user_id].locked_at = None,
                                               ![user_id].locked_by = None]
                            ELSE users
                /\ audit_logs' = create_audit_log(audit_logs, me, "unlock", "user", Some(user_id))
                /\ Len(audit_logs') <= MaxAudit
                /\ UNCHANGED <<roles, user_roles, nextUserId, nextRoleId>>
                /\ Reply("unlock_user", cookie, current_user, Some(user_id), None, "SEE_OTHER")

\* variant: the self check made after the DELETE
delete_user_self_check_after_delete(cookie, user_id) ==
    LET current_user == get_current_user(cookie)
        R(status) == ReadOnly("delete_user", cookie, current_user, Some(user_id), None, status)
        me == Unwrap(current_user).id
        self == is_self(Unwrap(current_user), user_id)
    IN  /\ Request
        /\ IF current_user = None THEN R("UNAUTHORIZED")
           ELSE IF ~Unwrap(current_user).has_team_delete THEN R("FORBIDDEN")
           ELSE IF user_id \notin DOMAIN users THEN R("NOT_FOUND")
           ELSE /\ users' = [id \in (DOMAIN users) \ {user_id} |-> users[id]]
                /\ user_roles' = {r \in user_roles : r.user_id # user_id}
                /\ audit_logs' = IF self THEN audit_logs
                                 ELSE create_audit_log(audit_logs, me, "delete", "user", Some(user_id))
                /\ Len(audit_logs') <= MaxAudit
                /\ UNCHANGED <<roles, nextUserId, nextRoleId>>
                /\ Reply("delete_user", cookie, current_user, Some(user_id), None,
                         IF self THEN "BAD_REQUEST" ELSE "SEE_OTHER")

delete_user(cookie, user_id) ==
    LET current_user == get_current_user(cookie)
        R(status) == ReadOnly("delete_user", cookie, current_user, Some(user_id), None, status)
        me == Unwrap(current_user).id
    IN  /\ Request
        /\ IF current_user = None THEN R("UNAUTHORIZED")
           ELSE IF ~Unwrap(current_user).has_team_delete THEN R("FORBIDDEN")
           ELSE IF is_self(Unwrap(current_user), user_id) THEN R("BAD_REQUEST")
           ELSE IF user_id \notin DOMAIN users THEN R("NOT_FOUND")
           ELSE /\ users' = [id \in (DOMAIN users) \ {user_id} |-> users[id]]
                /\ user_roles' = {r \in user_roles : r.user_id # user_id}
                /\ audit_logs' = create_audit_log(audit_logs, me, "delete", "user", Some(user_id))
                /\ Len(audit_logs') <= MaxAudit
                /\ UNCHANGED <<roles, nextUserId, nextRoleId>>
                /\ Reply("delete_user", cookie, current_user, Some(user_id), None, "SEE_OTHER")

roles_list(cookie) ==
    LET current_user == get_current_user(cookie)
        R(status) == ReadOnly("roles_list", cookie, current_user, None, None, status)
    IN  /\ Request
        /\ IF current_user = None THEN R("UNAUTHORIZED")
           ELSE IF ~Unwrap(current_user).has_manage_roles THEN R("FORBIDDEN")
           ELSE R("OK")

role_form(cookie) ==
    LET current_user == get_current_user(cookie)
        R(status) == ReadOnly("role_form", cookie, current_user, None, None, status)
    IN  /\ Request
        /\ IF current_user = None THEN R("UNAUTHORIZED")
           ELSE IF ~Unwrap(current_user).has_manage_roles THEN R("FORBIDDEN")
           ELSE R("OK")

role_edit_form(cookie, role_id) ==
    LET current_user == get_current_user(cookie)
        R(status) == ReadOnly("role_edit_form", cookie, current_user, Some(role_id), None, status)
    IN  /\ Request
        /\ IF current_user = None THEN R("UNAUTHORIZED")
           ELSE IF ~Unwrap(current_user).has_manage_roles THEN R("FORBIDDEN")
           ELSE IF role_id \notin DOMAIN roles THEN R("NOT_FOUND")
           ELSE R("OK")

create_role(cookie, form) ==
    LET current_user == get_current_user(cookie)
        R(status) == ReadOnly("create_role", cookie, current_user, None, Some(form), status)
        me == Unwrap(current_user).id
        id == nextRoleId
        row == [id |-> id, name |-> form.name, permissions |-> form.permissions,
                is_active |-> form.is_active, created_by |-> Some(me)]
    IN  /\ Request
        /\ IF current_user = None THEN R("UNAUTHORIZED")
           ELSE IF ~Unwrap(current_user).has_manage_roles THEN R("FORBIDDEN")
           ELSE IF name_taken(form.name, id) THEN R("INTERNAL_SERVER_ERROR")
           ELSE /\ id <= RoleBase + MaxRoles
                /\ roles' = (id :> row) @@ roles
                /\ nextRoleId' = id + 1
                /\ audit_logs' = create_audit_log(audit_logs, me, "create", "role", Some(id))
                /\ Len(audit_logs') <= MaxAudit
                /\ UNCHANGED <<users, user_roles, nextUserId>>
                /\ Reply("create_role", cookie, current_user, None, Some(form), "SEE_OTHER")

update_role(cookie, role_id, form) ==
    LET current_user == get_current_user(cookie)
        R(status) == ReadOnly("update_role", cookie, current_user, Some(role_id), Some(form), status)
        me == Unwrap(current_user).id
    IN  /\ Request
        /\ IF current_user = None THEN R("UNAUTHORIZED")
           ELSE IF ~Unwrap(current_user).has_manage_roles THEN R("FORBIDDEN")
           ELSE IF role_id \in DOMAIN roles /\ name_taken(form.name, role_id)
                THEN R("INTERNAL_SERVER_ERROR")
           ELSE /\ roles' = IF role_id \in DOMAIN roles
                            THEN [roles EXCEPT ![role_id].name = form.name,
                                               ![role_id].permissions = form.permissions,
                                               ![role_id].is_active = form.is_active]
                            ELSE roles
                /\ audit_logs' = create_audit_log(audit_logs, me, "update", "role", Some(role_id))
                /\ Len(audit_logs') <= MaxAudit
                /\ UNCHANGED <<users, user_roles, nextUserId, nextRoleId>>
                /\ Reply("update_role", cookie, current_user, Some(role_id), Some(form), "SEE_OTHER")

count_user_roles_wrong_column(role_id) ==
    Cardinality({r \in user_roles : r.user_id = role_id})

\* SELECT COUNT(*) FROM user_roles WHERE role_id = $1
count_user_roles(role_id) == Cardinality({r \in user_roles : r.role_id = role_id})

delete_role(cookie, role_id) ==
    LET current_user == get_current_user(cookie)
        R(status) == ReadOnly("delete_role", cookie, current_user, Some(role_id), None, status)
        me == Unwrap(current_user).id
        user_count == count_user_roles(role_id)
    IN  /\ Request
        /\ IF current_user = None THEN R("UNAUTHORIZED")
           ELSE IF ~Unwrap(current_user).has_manage_roles THEN R("FORBIDDEN")
           ELSE IF user_count > 0 THEN R("CONFLICT")
           ELSE IF role_id \notin DOMAIN roles THEN R("NOT_FOUND")
           ELSE /\ roles' = [id \in (DOMAIN roles) \ {role_id} |-> roles[id]]
                /\ audit_logs' = create_audit_log(audit_logs, me, "delete", "role", Some(role_id))
                /\ Len(audit_logs') <= MaxAudit
                /\ UNCHANGED <<users, user_roles, nextUserId, nextRoleId>>
                /\ Reply("delete_role", cookie, current_user, Some(role_id), None, "SEE_OTHER")

\* ------------------------------------------------------------------- Spec
Next ==
    \/ \E c \in Cookies : team_dashboard(c)
    \/ \E c \in Cookies : users_list(c)
    \/ \E c \in Cookies : user_form(c)
    \/ \E c \in Cookies, u \in UserIds : user_edit_form(c, u)
    \/ \E c \in Cookies, f \in UserForms : create_user(c, f)
    \/ \E c \in Cookies, u \in UserIds, f \in UserForms : update_user(c, u, f)
    \/ \E c \in Cookies, u \in UserIds : lock_user(c, u)
    \/ \E c \in Cookies, u \in UserIds : unlock_user(c, u)
    \/ \E c \in Cookies, u \in UserIds : delete_user(c, u)
    \/ \E c \in Cookies : roles_list(c)
    \/ \E c \in Cookies : role_form(c)
    \/ \E c \in Cookies, r \in RoleIds : role_edit_form(c, r)
    \/ \E c \in Cookies, f \in RoleForms : create_role(c, f)
    \/ \E c \in Cookies, r \in RoleIds, f \in RoleForms : update_role(c, r, f)
    \/ \E c \in Cookies, r \in RoleIds : delete_role(c, r)
    \/ send_response

Spec == Init /\ [][Next]_vars

\* -------------------------------------------------------------- SpecToken
\* the steps the clock takes: a second, the leeway, a second short of 24 hours
TickSteps == {1, Leeway, TokenLifetime - 1}

\* login: create_token(user.id, user.email) at the current time, the session
\* row (let _ = INSERT INTO sessions: written or not), the token set as the
\* auth_token cookie
issue_token(user_id, email, recorded) ==
    /\ vres = NoVres
    /\ recorded => Len(sessions) < MaxSessions
    /\ jar' = Some(create_token(user_id, email, now))
    /\ minted' = Some([user_id |-> user_id, email |-> email, at |-> now])
    /\ sessions' = IF recorded
                   THEN Append(sessions, [user_id |-> user_id,
                                          expires_at |-> now + TokenLifetime])
                   ELSE sessions
    /\ UNCHANGED <<store, now, ticks, vres, resp, req, fetched, set_cookie>>

\* logout: cookies.remove("auth_token"), nothing else
logout ==
    /\ vres = NoVres
    /\ jar # None
    /\ jar' = None
    /\ UNCHANGED <<store, now, ticks, minted, vres, resp, sessions, req, fetched, set_cookie>>

\* Utc::now() moves on
tick(d) ==
    /\ vres = NoVres
    /\ ticks < MaxTicks
    /\ now' = now + d
    /\ ticks' = ticks + 1
    /\ UNCHANGED <<store, jar, minted, vres, resp, sessions, req, fetched, set_cookie>>

\* what a request may carry once the jar holds a token: the token, the token
\* with its exp pushed out under the old signature, other text
Presented(token) ==
    { token,
      [token EXCEPT !.payload.exp = @ + TokenLifetime],
      MalformedToken }

\* the token last issued, which its bearer can keep presenting after logout
Kept == create_token(Unwrap(minted).user_id, Unwrap(minted).email, Unwrap(minted).at)

verify_requiring_session(token) ==
    /\ vres = NoVres
    /\ vres' = [token |-> token, at |-> now,
                result |-> IF \E i \in DOMAIN sessions :
                                 /\ Uuid_to_string(sessions[i].user_id) = token.payload.sub
                                 /\ sessions[i].expires_at >= now
                           THEN verify_token(token, now)
                           ELSE Err("NoSession"),
                called |-> TRUE]
    /\ UNCHANGED <<store, now, ticks, jar, minted, resp, sessions, req, fetched, set_cookie>>

\* verify_token(&token) at the current time
verify(token) ==
    /\ vres = NoVres
    /\ vres' = [token |-> token, at |-> now,
                result |-> verify_token(token, now), called |-> TRUE]
    /\ UNCHANGED <<store, now, ticks, jar, minted, resp, sessions, req, fetched, set_cookie>>

\* the caller of verify_token takes the result
verified ==
    /\ vres # NoVres
    /\ vres' = NoVres
    /\ UNCHANGED <<store, now, ticks, jar, minted, resp, sessions, req, fetched, set_cookie>>

NextToken ==
    \/ \E u \in UserIds, e \in Emails, recorded \in BOOLEAN : issue_token(u, e, recorded)
    \/ logout
    \/ \E d \in TickSteps : tick(d)
    \/ \E t \in (IF minted = None THEN {} ELSE Presented(Kept)) : verify(t)
    \/ verified

SpecToken == Init /\ [][NextToken]_vars

\* --------------------------------------------------------------- SpecConc
\* The handlers statement by statement: each store call (.await) is one step
\* of the process serving the request, and the steps of different requests
\* interleave freely. The audit insert may fail. The store starts as the
\* handlers leave it after create_role and create_user have added the role
\* Sales and the user sam holding it.
InitConcStore ==
    /\ users = (1 :> [id |-> 1, email |-> SuperAdminEmail,
                      password_hash |-> hash_password(GoodPassword),
                      is_active |-> TRUE, is_locked |-> FALSE,
                      locked_at |-> None, locked_by |-> None])
            @@ (2 :> [id |-> 2, email |-> "sam@habb.tech",
                      password_hash |-> hash_password(GoodPassword),
                      is_active |-> TRUE, is_locked |-> FALSE,
                      locked_at |-> None, locked_by |-> None])
    /\ roles = ((RoleBase + 1) :>
                   [id |-> RoleBase + 1, name |-> "Admin",
                    permissions |-> AdminPermissions, is_active |-> TRUE,
                    created_by |-> None])
            @@ ((RoleBase + 2) :>
                   [id |-> RoleBase + 2, name |-> "Sales",
                    permissions |-> <<TeamWrite, TeamRead, TeamWrite>>,
                    is_active |-> TRUE, created_by |-> Some(1)])
    /\ user_roles = {[user_id |-> 1, role_id |-> RoleBase + 1,
                      assigned_at |-> Epoch0, assigned_by |-> None],
                     [user_id |-> 2, role_id |-> RoleBase + 2,
                      assigned_at |-> Epoch0, assigned_by |-> Some(1)]}
    /\ audit_logs = <<[user_id |-> 1, action |-> "create",
                       resource_type |-> "role", resource_id |-> Some(RoleBase + 2)],
                      [user_id |-> 1, action |-> "create",
                       resource_type |-> "user", resource_id |-> Some(2)]>>
    /\ nextUserId = 3
    /\ nextRoleId = RoleBase + 3

InitConc ==
    /\ InitConcStore
    /\ now = Epoch0
    /\ ticks = 0
    /\ jar = None
    /\ minted = None
    /\ vres = NoVres
    /\ resp = NoResp
    /\ sessions = <<>>
    /\ req = [p \in Procs |-> Idle]
    /\ fetched = None
    /\ set_cookie = None

\* the requests that arrive: the admin's and sam's cookies, and cookies that
\* are no live token
Admin == Some(LiveToken(1))
Sam == Some(LiveToken(2))
DropRoles == [email |-> "sam@habb.tech", password |-> Some(GoodPassword),
              role_ids |-> <<>>, is_active |-> TRUE]
SwapRoles == [email |-> "sam@habb.tech", password |-> None,
              role_ids |-> <<FirstRole>>, is_active |-> TRUE]
KeepRoles == [email |-> "sam@habb.tech", password |-> None,
              role_ids |-> <<SecondRole>>, is_active |-> TRUE]
NewUser == [email |-> "kim@habb.tech", password |-> Some(GoodPassword),
            role_ids |-> <<SecondRole, NotAUuid>>, is_active |-> TRUE]
StripKeys == [name |-> "Sales", permissions |-> CustomerPermissions, is_active |-> TRUE]
NewRole == [name |-> "Support", permissions |-> <<TeamRead, TeamRead>>, is_active |-> TRUE]
Call(op, cookie, target, form) ==
    [op |-> op, cookie |-> cookie, target |-> target, form |-> form]
ConcRequests ==
    { Call("team_dashboard", c, None, None) :
          c \in {None, Sam, Some(StaleToken(2)), Some(MalformedToken),
                 Some(ForgedToken), Some(BadSubjectToken)} }
    \cup { Call("lock_user", Admin, Some(2), None),
           Call("lock_user", Sam, Some(2), None),
           Call("lock_user", Sam, Some(1), None),
           Call("unlock_user", Admin, Some(2), None),
           Call("unlock_user", Sam, Some(2), None),
           Call("delete_user", Admin, Some(2), None),
           Call("update_user", Admin, Some(2), Some(DropRoles)),
           Call("update_user", Admin, Some(2), Some(SwapRoles)),
           Call("update_user", Sam, Some(2), Some(SwapRoles)),
           Call("update_user", Admin, Some(2), Some(KeepRoles)),
           Call("create_user", Admin, None, Some(NewUser)),
           Call("update_role", Admin, Some(RoleBase + 2), Some(StripKeys)),
           Call("create_role", Admin, None, Some(NewRole)),
           Call("delete_role", Admin, Some(RoleBase + 2), None) }

\* the frame of a handler step
Step(p) == UNCHANGED <<now, ticks, jar, minted, vres, resp, sessions, fetched, set_cookie>>
Goto(p, pc) == req' = [req EXCEPT ![p].pc = pc]
Return(p, status) == req' = [req EXCEPT ![p].pc = "done", ![p].status = status]

\* the router hands the request to its handler (processes start in order)
receive(p, r) ==
    /\ req[p].pc = "idle"
    /\ IF p = 1 THEN TRUE ELSE req[p - 1].pc # "idle"
    /\ req' = [req EXCEPT ![p] = [Idle EXCEPT !.pc = "get_current_user",
                                               !.op = r.op, !.cookie = r.cookie,
                                               !.target = r.target, !.form = r.form]]
    /\ UNCHANGED store
    /\ Step(p)

\* SELECT * FROM users WHERE email = 'andrew.davis@habb.tech'
\*   AND is_active = true AND is_locked = false
select_super_admin ==
    LET found == {id \in DOMAIN users :
                     /\ users[id].email = SuperAdminEmail
                     /\ users[id].is_active
                     /\ ~users[id].is_locked}
    IN  IF found = {} THEN None ELSE Some(users[CHOOSE i \in found : TRUE])

select_user_by_id_ignoring_lock(user_id) ==
    IF user_id \in DOMAIN users /\ users[user_id].is_active
    THEN Some(users[user_id])
    ELSE None

\* SELECT ... FROM users WHERE id = $1 AND is_active = true AND is_locked = false
select_user_by_id(user_id) ==
    IF /\ user_id \in DOMAIN users
       /\ users[user_id].is_active
       /\ ~users[user_id].is_locked
    THEN Some(users[user_id])
    ELSE None

select_user_skipping_verify(cookie) ==
    IF cookie = None THEN None
    ELSE LET user_id == Uuid_parse_str(Unwrap(cookie).payload.sub)
         IN  IF ~user_id.ok THEN select_super_admin
             ELSE select_user_by_id(Unwrap(user_id.val))

\* get_current_user up to its user query: which row the cookie leads to
select_user(cookie) ==
    IF cookie = None THEN None
    ELSE LET claims == verify_token(Unwrap(cookie), now)
         IN  IF ~claims.ok THEN select_super_admin
             ELSE LET user_id == Uuid_parse_str(Unwrap(claims.val).sub)
                  IN  IF ~user_id.ok THEN select_super_admin
                      ELSE select_user_by_id(Unwrap(user_id.val))

\* get_current_user, first store call; None is answered 401 by every handler
resolve_user(p) ==
    /\ req[p].pc = "get_current_user"
    /\ LET row == select_user(req[p].cookie)
       IN  IF row = None THEN Return(p, "UNAUTHORIZED")
           ELSE req' = [req EXCEPT ![p].pc = "get_user_permissions", ![p].user = row]
    /\ UNCHANGED store
    /\ Step(p)

\* what the handler does between resolving the caller and its first statement:
\* the status it returns, or the statement it goes on to
after_gate(op, current_user, target, form) ==
    CASE op = "team_dashboard" ->
           IF ~current_user.has_team_read THEN "FORBIDDEN" ELSE "OK"
      [] op = "create_user" ->
           IF ~current_user.has_team_write THEN "FORBIDDEN"
           ELSE IF Unwrap(form).password = None THEN "BAD_REQUEST"
           ELSE IF Len(Unwrap(Unwrap(form).password)) < MinPasswordLen THEN "BAD_REQUEST"
           ELSE "create_user_insert"
      [] op = "update_user" ->
           IF ~current_user.has_team_write THEN "FORBIDDEN" ELSE "update_user_update"
      [] op = "lock_user" ->
           IF ~current_user.has_team_write THEN "FORBIDDEN"
           ELSE IF is_self(current_user, Unwrap(target)) THEN "BAD_REQUEST"
           ELSE "lock_user_update"
      [] op = "unlock_user" ->
           IF ~current_user.has_team_write THEN "FORBIDDEN" ELSE "unlock_user_update"
      [] op = "delete_user" ->
           IF ~current_user.has_team_delete THEN "FORBIDDEN"
           ELSE IF is_self(current_user, Unwrap(target)) THEN "BAD_REQUEST"
           ELSE "delete_user_fetch"
      [] op = "create_role" ->
           IF ~current_user.has_manage_roles THEN "FORBIDDEN" ELSE "create_role_insert"
      [] op = "update_role" ->
           IF ~current_user.has_manage_roles THEN "FORBIDDEN" ELSE "update_role_update"
      [] op = "delete_role" ->
           IF ~current_user.has_manage_roles THEN "FORBIDDEN" ELSE "delete_role_count"

Statuses == {"OK", "UNAUTHORIZED", "FORBIDDEN", "BAD_REQUEST", "NOT_FOUND",
             "CONFLICT", "INTERNAL_SERVER_ERROR", "SEE_OTHER"}

\* get_current_user, second store call (get_user_permissions), and the
\* handler's checks on the identity it got
resolve_permissions(p) ==
    /\ req[p].pc = "get_user_permissions"
    /\ LET user == Unwrap(req[p].user)
           current_user == from_user_and_permissions(user, get_user_permissions(user.id))
           then == after_gate(req[p].op, current_user, req[p].target, req[p].form)
       IN  req' = [req EXCEPT ![p].identity = Some(current_user),
                              ![p].pc = IF then \in Statuses THEN "done" ELSE then,
                              ![p].status = IF then \in Statuses THEN then ELSE "none"]
    /\ UNCHANGED store
    /\ Step(p)

Me(p) == Unwrap(req[p].identity).id
Target(p) == Unwrap(req[p].target)
Form(p) == Unwrap(req[p].form)

\* lock_user: UPDATE users SET is_locked = true, locked_at = NOW(), locked_by = $1 WHERE id = $2
lock_user_update(p) ==
    /\ req[p].pc = "lock_user_update"
    /\ users' = IF Target(p) \in DOMAIN users
                THEN [users EXCEPT ![Target(p)].is_locked = TRUE,
                                   ![Target(p)].locked_at = Some(now),
                                   ![Target(p)].locked_by = Some(Me(p))]
                ELSE users
    /\ Goto(p, "audit")
    /\ UNCHANGED <<roles, user_roles, audit_logs, nextUserId, nextRoleId>>
    /\ Step(p)

\* unlock_user: UPDATE users SET is_locked = false, locked_at = NULL, locked_by = NULL WHERE id = $1
unlock_user_update(p) ==
    /\ req[p].pc = "unlock_user_update"
    /\ users' = IF Target(p) \in DOMAIN users
                THEN [users EXCEPT ![Target(p)].is_locked = FALSE,
                                   ![Target(p)].locked_at = None,
                                   ![Target(p)].locked_by = None]
                ELSE users
    /\ Goto(p, "audit")
    /\ UNCHANGED <<roles, user_roles, audit_logs, nextUserId, nextRoleId>>
    /\ Step(p)

\* delete_user: SELECT * FROM users WHERE id = $1
delete_user_fetch(p) ==
    /\ req[p].pc = "delete_user_fetch"
    /\ IF Target(p) \notin DOMAIN users THEN Return(p, "NOT_FOUND")
       ELSE req' = [req EXCEPT ![p].pc = "delete_user_delete",
                               ![p].found = Some(users[Target(p)])]
    /\ UNCHANGED store
    /\ Step(p)

\* delete_user: DELETE FROM users WHERE id = $1 (user_roles rows cascade)
delete_user_delete(p) ==
    /\ req[p].pc = "delete_user_delete"
    /\ users' = [id \in (DOMAIN users) \ {Target(p)} |-> users[id]]
    /\ user_roles' = {r \in user_roles : r.user_id # Target(p)}
    /\ Goto(p, "audit")
    /\ UNCHANGED <<roles, audit_logs, nextUserId, nextRoleId>>
    /\ Step(p)

\* the role loop comes next when the list has entries, the audit log otherwise
RoleLoop(role_ids) == IF role_ids = <<>> THEN "audit" ELSE "insert_role"

\* create_user: INSERT INTO users ... RETURNING *
create_user_insert(p) ==
    /\ req[p].pc = "create_user_insert"
    /\ IF email_taken(Form(p).email, nextUserId)
       THEN Return(p, "INTERNAL_SERVER_ERROR") /\ UNCHANGED store
       ELSE /\ nextUserId <= MaxUsers + 1
            /\ users' = (nextUserId :>
                           [id |-> nextUserId, email |-> Form(p).email,
                            password_hash |-> hash_password(Unwrap(Form(p).password)),
                            is_active |-> Form(p).is_active, is_locked |-> FALSE,
                            locked_at |-> None, locked_by |-> None]) @@ users
            /\ nextUserId' = nextUserId + 1
            /\ req' = [req EXCEPT ![p].pc = RoleLoop(Form(p).role_ids),
                                  ![p].target = Some(nextUserId),
                                  ![p].todo = Form(p).role_ids]
            /\ UNCHANGED <<roles, user_roles, audit_logs, nextRoleId>>
    /\ Step(p)

\* update_user: UPDATE users SET email, is_active (, password_hash) WHERE id = $n
update_user_update(p) ==
    /\ req[p].pc = "update_user_update"
    /\ LET new_hash == /\ Form(p).password # None
                       /\ Len(Unwrap(Form(p).password)) >= MinPasswordLen
       IN  IF Target(p) \in DOMAIN users /\ email_taken(Form(p).email, Target(p))
           THEN Return(p, "INTERNAL_SERVER_ERROR") /\ UNCHANGED store
           ELSE /\ users' = IF Target(p) \in DOMAIN users
                            THEN [users EXCEPT
                                    ![Target(p)].email = Form(p).email,
                                    ![Target(p)].is_active = Form(p).is_active,
                                    ![Target(p)].password_hash =
                                        IF new_hash
                                        THEN hash_password(Unwrap(Form(p).password))
                                        ELSE @]
                            ELSE users
                /\ Goto(p, "update_user_delete_roles")
                /\ UNCHANGED <<roles, user_roles, audit_logs, nextUserId, nextRoleId>>
    /\ Step(p)

\* variant: the DELETE and the INSERTs in one transaction
update_user_replace_roles_in_transaction(p) ==
    /\ req[p].pc = "update_user_delete_roles"
    /\ user_roles' = assign_roles(delete_user_roles(user_roles, Target(p)), users,
                                  Target(p), Form(p).role_ids, Me(p))
    /\ req' = [req EXCEPT ![p].pc = "audit", ![p].todo = <<>>]
    /\ UNCHANGED <<users, roles, audit_logs, nextUserId, nextRoleId>>
    /\ Step(p)

\* update_user: DELETE FROM user_roles WHERE user_id = $1
update_user_delete_roles(p) ==
    /\ req[p].pc = "update_user_delete_roles"
    /\ user_roles' = delete_user_roles(user_roles, Target(p))
    /\ req' = [req EXCEPT ![p].pc = RoleLoop(Form(p).role_ids),
                          ![p].todo = Form(p).role_ids]
    /\ UNCHANGED <<users, roles, audit_logs, nextUserId, nextRoleId>>
    /\ Step(p)

\* create_user, update_user: one turn of the role loop: parse the string and,
\* if it is a UUID, INSERT INTO user_roles, whose error is dropped
insert_role(p) ==
    /\ req[p].pc = "insert_role"
    /\ LET parsed == Uuid_parse_str(Head(req[p].todo))
       IN  user_roles' = IF parsed.ok
                         THEN insert_user_role(user_roles, users, Target(p),
                                               Unwrap(parsed.val), Me(p))
                         ELSE user_roles
    /\ req' = [req EXCEPT ![p].pc = RoleLoop(Tail(req[p].todo)),
                          ![p].todo = Tail(req[p].todo)]
    /\ UNCHANGED <<users, roles, audit_logs, nextUserId, nextRoleId>>
    /\ Step(p)

\* create_role: INSERT INTO roles ... RETURNING *
create_role_insert(p) ==
    /\ req[p].pc = "create_role_insert"
    /\ IF name_taken(Form(p).name, nextRoleId)
       THEN Return(p, "INTERNAL_SERVER_ERROR") /\ UNCHANGED store
       ELSE /\ nextRoleId <= RoleBase + MaxRoles + 1
            /\ roles' = (nextRoleId :>
                           [id |-> nextRoleId, name |-> Form(p).name,
                            permissions |-> Form(p).permissions,
                            is_active |-> Form(p).is_active,
                            created_by |-> Some(Me(p))]) @@ roles
            /\ nextRoleId' = nextRoleId + 1
            /\ req' = [req EXCEPT ![p].pc = "audit", ![p].target = Some(nextRoleId)]
            /\ UNCHANGED <<users, user_roles, audit_logs, nextUserId>>
    /\ Step(p)

\* update_role: UPDATE roles SET name, permissions, is_active WHERE id = $n
update_role_update(p) ==
    /\ req[p].pc = "update_role_update"
    /\ IF Target(p) \in DOMAIN roles /\ name_taken(Form(p).name, Target(p))
       THEN Return(p, "INTERNAL_SERVER_ERROR") /\ UNCHANGED store
       ELSE /\ roles' = IF Target(p) \in DOMAIN roles
                        THEN [roles EXCEPT ![Target(p)].name = Form(p).name,
                                           ![Target(p)].permissions = Form(p).permissions,
                                           ![Target(p)].is_active = Form(p).is_active]
                        ELSE roles
            /\ Goto(p, "audit")
            /\ UNCHANGED <<users, user_roles, audit_logs, nextUserId, nextRoleId>>
    /\ Step(p)

\* delete_role: SELECT COUNT(*) FROM user_roles WHERE role_id = $1
delete_role_count(p) ==
    /\ req[p].pc = "delete_role_count"
    /\ IF count_user_roles(Target(p)) > 0 THEN Return(p, "CONFLICT")
       ELSE Goto(p, "delete_role_fetch")
    /\ UNCHANGED store
    /\ Step(p)

\* delete_role: SELECT * FROM roles WHERE id = $1
delete_role_fetch(p) ==
    /\ req[p].pc = "delete_role_fetch"
    /\ IF Target(p) \notin DOMAIN roles THEN Return(p, "NOT_FOUND")
       ELSE req' = [req EXCEPT ![p].pc = "delete_role_delete",
                               ![p].found = Some(roles[Target(p)])]
    /\ UNCHANGED store
    /\ Step(p)

\* delete_role: DELETE FROM roles WHERE id = $1. user_roles.role_id is a
\* foreign key to roles; what it does ON DELETE is the schema's choice: refuse
\* the DELETE while a row references the role (the statement fails, 500), or
\* remove the referencing rows with the role
OnDelete == {"restrict", "cascade"}
delete_role_delete(p, on_delete) ==
    /\ req[p].pc = "delete_role_delete"
    /\ IF on_delete = "restrict" /\ \E r \in user_roles : r.role_id = Target(p)
       THEN Return(p, "INTERNAL_SERVER_ERROR") /\ UNCHANGED store
       ELSE /\ roles' = [id \in (DOMAIN roles) \ {Target(p)} |-> roles[id]]
            /\ user_roles' = {r \in user_roles : r.role_id # Target(p)}
            /\ Goto(p, "audit")
            /\ UNCHANGED <<users, audit_logs, nextUserId, nextRoleId>>
    /\ Step(p)

\* the action and resource_type each handler passes to create_audit_log
AuditAction(op) ==
    CASE op \in {"create_user", "create_role"} -> "create"
      [] op \in {"update_user", "update_role"} -> "update"
      [] op \in {"delete_user", "delete_role"} -> "delete"
      [] op = "lock_user" -> "lock"
      [] op = "unlock_user" -> "unlock"
AuditResource(op) ==
    IF op \in {"create_role", "update_role", "delete_role"} THEN "role" ELSE "user"

audit_propagating_error(p, inserted) ==
    /\ req[p].pc = "audit"
    /\ audit_logs' = IF inserted
                     THEN create_audit_log(audit_logs, Me(p), AuditAction(req[p].op),
                                           AuditResource(req[p].op), req[p].target)
                     ELSE audit_logs
    /\ req' = [req EXCEPT ![p].pc = "done",
                          ![p].status = IF inserted THEN "SEE_OTHER"
                                        ELSE "INTERNAL_SERVER_ERROR",
                          ![p].audited = IF inserted THEN "ok" ELSE "failed"]
    /\ UNCHANGED <<users, roles, user_roles, nextUserId, nextRoleId>>
    /\ Step(p)

\* let _ = create_audit_log(...).await; Ok(Redirect): the insert succeeds or
\* fails, and its result is dropped
audit(p, inserted) ==
    /\ req[p].pc = "audit"
    /\ audit_logs' = IF inserted
                     THEN create_audit_log(audit_logs, Me(p), AuditAction(req[p].op),
                                           AuditResource(req[p].op), req[p].target)
                     ELSE audit_logs
    /\ req' = [req EXCEPT ![p].pc = "done", ![p].status = "SEE_OTHER",
                          ![p].audited = IF inserted THEN "ok" ELSE "failed"]
    /\ UNCHANGED <<users, roles, user_roles, nextUserId, nextRoleId>>
    /\ Step(p)

NextConc ==
    \/ \E p \in Procs, r \in ConcRequests : receive(p, r)
    \/ \E p \in Procs : resolve_user(p)
    \/ \E p \in Procs : resolve_permissions(p)
    \/ \E p \in Procs : lock_user_update(p)
    \/ \E p \in Procs : unlock_user_update(p)
    \/ \E p \in Procs : delete_user_fetch(p)
    \/ \E p \in Procs : delete_user_delete(p)
    \/ \E p \in Procs : create_user_insert(p)
    \/ \E p \in Procs : update_user_update(p)
    \/ \E p \in Procs : update_user_delete_roles(p)
    \/ \E p \in Procs : insert_role(p)
    \/ \E p \in Procs : create_role_insert(p)
    \/ \E p \in Procs : update_role_update(p)
    \/ \E p \in Procs : delete_role_count(p)
    \/ \E p \in Procs : delete_role_fetch(p)
    \/ \E p \in Procs, on_delete \in OnDelete : delete_role_delete(p, on_delete)
    \/ \E p \in Procs, inserted \in BOOLEAN : audit(p, inserted)

SpecConc == InitConc /\ [][NextConc]_vars

\* -------------------------------------------------------------- SpecLogin
\* handlers/auth.rs: the credential login next to the team operations that
\* create, deactivate, lock and unlock accounts
WrongPassword == <<"l", "e", "t", "m", "e", "i", "n">>
LoginForms ==
    {[email |-> e, password |-> pw] :
        e \in Emails \cup {"nobody@habb.tech"}, pw \in {GoodPassword, WrongPassword}}

\* utils::verify_password: the password against the stored bcrypt hash
verify_password(password, password_hash) == password_hash = hash_password(password)

authenticate_user_ignoring_lock(email, password) ==
    LET found == {id \in DOMAIN users : users[id].email = email /\ users[id].is_active}
    IN  IF found = {} THEN Err("RowNotFound")
        ELSE LET user == users[CHOOSE id \in found : TRUE]
             IN  IF verify_password(password, user.password_hash) THEN Ok(user)
                 ELSE Err("RowNotFound")

\* SELECT * FROM users WHERE email = $1 AND is_active = true AND is_locked = false
\* (fetch_one), then verify_password(..).unwrap_or(false)
authenticate_user(email, password) ==
    LET found == {id \in DOMAIN users :
                     /\ users[id].email = email
                     /\ users[id].is_active
                     /\ ~users[id].is_locked}
    IN  IF found = {} THEN Err("RowNotFound")
        ELSE LET user == users[CHOOSE id \in found : TRUE]
             IN  IF verify_password(password, user.password_hash) THEN Ok(user)
                 ELSE Err("RowNotFound")

\* Cookie::build(("auth_token", token)).path("/").http_only(true).max_age(24 h)
auth_cookie(token) ==
    [name |-> "auth_token", value |-> token, path |-> "/", http_only |-> TRUE,
     max_age |-> TokenLifetime]

\* login; recorded: whether the INSERT INTO sessions (let _ =) went through
login(form, recorded) ==
    LET result == authenticate_user(form.email, form.password)
        user == Unwrap(result.val)
        token == create_token(user.id, user.email, now)
    IN  /\ resp = NoResp
        /\ IF result.ok
           THEN /\ recorded => Len(sessions) < MaxSessions
                /\ sessions' = IF recorded
                               THEN Append(sessions, [user_id |-> user.id,
                                                      expires_at |-> now + TokenLifetime])
                               ELSE sessions
                /\ set_cookie' = Some(auth_cookie(token))
                /\ jar' = Some(token)
                /\ Reply("login", None, None, None, Some(form), "SEE_OTHER")
           ELSE /\ Reply("login", None, None, None, Some(form), "UNAUTHORIZED")
                /\ set_cookie' = None
                /\ UNCHANGED <<jar, sessions>>
        /\ UNCHANGED <<store, now, ticks, minted, vres, req, fetched>>

\* register: hash_password, then create_user_in_db: INSERT INTO users (email,
\* password_hash, first_name, last_name) RETURNING *, the status columns left
\* to the schema (active: the column default, either value; not locked)
RegisterForms == {[email |-> e, password |-> GoodPassword] : e \in Emails}
register(form, active) ==
    /\ resp = NoResp
    /\ IF email_taken(form.email, nextUserId)
       THEN /\ Reply("register", None, None, None, Some(form), "BAD_REQUEST")
            /\ UNCHANGED store
       ELSE /\ nextUserId <= MaxUsers
            /\ users' = (nextUserId :>
                           [id |-> nextUserId, email |-> form.email,
                            password_hash |-> hash_password(form.password),
                            is_active |-> active, is_locked |-> FALSE,
                            locked_at |-> None, locked_by |-> None]) @@ users
            /\ nextUserId' = nextUserId + 1
            /\ UNCHANGED <<roles, user_roles, audit_logs, nextRoleId>>
            /\ Reply("register", None, None, None, Some(form), "SEE_OTHER")
    /\ UNCHANGED <<now, ticks, jar, minted, vres, sessions, req, fetched, set_cookie>>

NextLogin ==
    \/ \E f \in UserForms : create_user(Some(LiveToken(1)), f)
    \/ \E u \in UserIds, f \in UserForms : update_user(Some(LiveToken(1)), u, f)
    \/ \E c \in UserIds, u \in UserIds : lock_user(Some(LiveToken(c)), u)
    \/ \E c \in UserIds, u \in UserIds : unlock_user(Some(LiveToken(c)), u)
    \/ \E f \in RegisterForms, active \in BOOLEAN : register(f, active)
    \/ \E f \in LoginForms, recorded \in BOOLEAN : login(f, recorded)
    \/ send_response

SpecLogin == Init /\ [][NextLogin]_vars

\* -------------------------------------------------------------- SpecFault
\* the same handlers when a store call returns Err(sqlx::Error)
Failed(p, pc, status) ==
    req' = [req EXCEPT ![p].pc = pc, ![p].status = status, ![p].failed = TRUE]

\* get_super_admin_user, get_user_by_id: .fetch_optional(db).await.ok()?? is
\* None on an error, and None is answered 401 by every handler
resolve_user_store_error(p) ==
    /\ req[p].pc = "get_current_user"
    /\ req[p].cookie # None
    /\ Failed(p, "done", "UNAUTHORIZED")
    /\ UNCHANGED store
    /\ Step(p)

\* get_user_permissions: .fetch_all(db).await.unwrap_or_default() is the empty
\* Vec on an error
resolve_permissions_store_error(p) ==
    /\ req[p].pc = "get_user_permissions"
    /\ LET current_user == from_user_and_permissions(Unwrap(req[p].user), {})
           then == after_gate(req[p].op, current_user, req[p].target, req[p].form)
       IN  req' = [req EXCEPT ![p].identity = Some(current_user),
                              ![p].pc = IF then \in Statuses THEN "done" ELSE then,
                              ![p].status = IF then \in Statuses THEN then ELSE "none",
                              ![p].failed = TRUE]
    /\ UNCHANGED store
    /\ Step(p)

\* delete_role: .fetch_one(&db).await.unwrap_or(0) is 0 on an error
delete_role_count_store_error(p) ==
    /\ req[p].pc = "delete_role_count"
    /\ Failed(p, "delete_role_fetch", "none")
    /\ UNCHANGED store
    /\ Step(p)

\* create_user, update_user: let _ = INSERT INTO user_roles: the error is
\* dropped and the loop goes on
insert_role_store_error(p) ==
    /\ req[p].pc = "insert_role"
    /\ Uuid_parse_str(Head(req[p].todo)).ok
    /\ req' = [req EXCEPT ![p].pc = RoleLoop(Tail(req[p].todo)),
                          ![p].todo = Tail(req[p].todo),
                          ![p].failed = TRUE]
    /\ UNCHANGED store
    /\ Step(p)

\* delete_user, delete_role: .fetch_one(&db).await.map_err(|_| NOT_FOUND)?
fetch_store_error(p) ==
    /\ req[p].pc \in {"delete_user_fetch", "delete_role_fetch"}
    /\ Failed(p, "done", "NOT_FOUND")
    /\ UNCHANGED store
    /\ Step(p)

\* every other statement: .await.map_err(|_| INTERNAL_SERVER_ERROR)?
statement_store_error(p) ==
    /\ req[p].pc \in {"lock_user_update", "unlock_user_update", "delete_user_delete",
                      "create_user_insert", "update_user_update",
                      "update_user_delete_roles", "create_role_insert",
                      "update_role_update", "delete_role_delete"}
    /\ Failed(p, "done", "INTERNAL_SERVER_ERROR")
    /\ UNCHANGED store
    /\ Step(p)

NextFault ==
    \/ NextConc
    \/ \E p \in Procs : resolve_user_store_error(p)
    \/ \E p \in Procs : resolve_permissions_store_error(p)
    \/ \E p \in Procs : delete_role_count_store_error(p)
    \/ \E p \in Procs : insert_role_store_error(p)
    \/ \E p \in Procs : fetch_store_error(p)
    \/ \E p \in Procs : statement_store_error(p)

SpecFault == InitConc /\ [][NextFault]_vars

\* --------------------------------------------------------------- SpecRows
\* get_user_permissions as the Vec it returns. The query has DISTINCT and no
\* ORDER BY: each key comes back once, in an order the store chooses.
RECURSIVE Orders(_)
Orders(S) ==
    IF S = {} THEN {<<>>}
    ELSE UNION {{<<x>> \o t : t \in Orders(S \ {x})} : x \in S}

get_user_permissions_rows(user_id) == Orders(get_user_permissions(user_id))

\* the stores the call is made on: the super admin, every role either absent
\* or holding one of the submitted permission lists, active or not, assigned
\* to the super admin or not
RoleRows ==
    {[id |-> 0, name |-> "none", permissions |-> l, is_active |-> a,
      created_by |-> None] : l \in {f.permissions : f \in RoleForms} \cup {AdminPermissions},
                             a \in BOOLEAN}
InitRows ==
    /\ users = (1 :> [id |-> 1, email |-> SuperAdminEmail,
                      password_hash |-> hash_password(GoodPassword),
                      is_active |-> TRUE, is_locked |-> FALSE,
                      locked_at |-> None, locked_by |-> None])
    /\ \E present \in SUBSET RoleIds :
          /\ roles \in {[id \in present |-> [f[id] EXCEPT !.id = id, !.name = <<"role", id>>]] :
                           f \in [present -> RoleRows]}
          /\ user_roles \in {{[user_id |-> 1, role_id |-> r, assigned_at |-> Epoch0,
                               assigned_by |-> None] : r \in held} :
                                held \in SUBSET present}
    /\ audit_logs = <<>>
    /\ nextUserId = 2
    /\ nextRoleId = RoleBase + MaxRoles + 1
    /\ now = Epoch0
    /\ ticks = 0
    /\ jar = None
    /\ minted = None
    /\ vres = NoVres
    /\ resp = NoResp
    /\ sessions = <<>>
    /\ req = [p \in Procs |-> Idle]
    /\ fetched = None
    /\ set_cookie = None

\* let permissions = get_user_permissions(db, user.id).await
call_get_user_permissions(user_id) ==
    /\ fetched = None
    /\ fetched' \in {Some(rows) : rows \in get_user_permissions_rows(user_id)}
    /\ UNCHANGED <<store, now, ticks, jar, minted, vres, resp, sessions, req, set_cookie>>

\* the permission keys in ascending (byte) order
KeyOrder == <<"customers:read", "customers:write", "team:delete",
              "team:manage_roles", "team:read", "team:write">>

\* Vec<String>::sort and Vec::dedup (which drops consecutive repeats)
RECURSIVE sort_from(_, _)
sort_from(list, i) ==
    IF i > Len(KeyOrder) THEN <<>>
    ELSE SelectSeq(list, LAMBDA k : k = KeyOrder[i]) \o sort_from(list, i + 1)
sort(list) == sort_from(list, 1)
RECURSIVE dedup(_)
dedup(list) ==
    IF Len(list) <= 1 THEN list
    ELSE IF list[1] = list[2] THEN dedup(Tail(list))
    ELSE <<list[1]>> \o dedup(Tail(list))

\* SELECT r.* FROM roles r JOIN user_roles ur ON r.id = ur.role_id
\*   WHERE ur.user_id = $1 ORDER BY r.name
\* (the rows in some order: the sort below makes the order immaterial)
RECURSIVE rows_of(_)
rows_of(ids) ==
    IF ids = {} THEN <<>>
    ELSE LET id == CHOOSE r \in ids : TRUE
         IN  <<roles[id]>> \o rows_of(ids \ {id})
user_role_rows(user_id) ==
    rows_of({r.role_id : r \in {x \in user_roles : x.user_id = user_id}} \cap DOMAIN roles)

RECURSIVE extend_all(_)
extend_all(role_rows) ==
    IF role_rows = <<>> THEN <<>>
    ELSE Head(role_rows).permissions \o extend_all(Tail(role_rows))
get_user_permissions_from_roles(role_rows) == dedup(sort(extend_all(role_rows)))

\* UserWithRoles.permissions as get_user_with_roles and get_users_with_roles
\* build it
get_user_with_roles(user_id) == get_user_permissions_from_roles(user_role_rows(user_id))

\* user_edit_form, users_list: let user = get_user_with_roles(&db, user_id).await
call_get_user_with_roles(user_id) ==
    /\ fetched = None
    /\ user_id \in DOMAIN users
    /\ fetched' = Some(get_user_with_roles(user_id))
    /\ Reply("get_user_with_roles", None, None, Some(user_id), None, "OK")
    /\ UNCHANGED <<store, now, ticks, jar, minted, vres, sessions, req, set_cookie>>

NextRows ==
    \/ \E u \in UserIds : call_get_user_permissions(u)
    \/ \E u \in UserIds : call_get_user_with_roles(u)

SpecRows == InitRows /\ [][NextRows]_vars

\* ================================================================== claims
\* what the claims speak of, read off the tables
Assigned(u) == {r.role_id : r \in {x \in user_roles : x.user_id = u}}
ActiveAssigned(u) == {id \in Assigned(u) \cap DOMAIN roles : roles[id].is_active}
KeysOf(ids) == UNION {Range(roles[id].permissions) : id \in ids}
Answered == resp # NoResp
Caller == Unwrap(resp.identity)
Resolved == Answered /\ resp.identity # None

\* C1: the permissions resolved for a user are exactly the union of the keys
\* of the roles assigned to that user that are active: for every user of the
\* store, and in the identity every handler resolves (read before it writes).
C1_EffectivePermissions ==
    [][ /\ \A u \in UserIds : get_user_permissions(u) = KeysOf(ActiveAssigned(u))
        /\ (resp' # NoResp /\ resp'.identity # None) =>
              Unwrap(resp'.identity).permissions =
                  KeysOf(ActiveAssigned(Unwrap(resp'.identity).id)) ]_vars

\* C1 witness: a user holding only the active role {customers:read,
\* customers:write} resolves to exactly those two keys (and is refused the
\* team dashboard), while an unassigned role with other keys exists.
C1_Witness ==
    /\ Resolved
    /\ Caller.id # 1
    /\ Assigned(Caller.id) = {RoleBase + 2}
    /\ roles[RoleBase + 2].is_active
    /\ Range(roles[RoleBase + 2].permissions) = {"customers:read", "customers:write"}
    /\ Caller.permissions = {"customers:read", "customers:write"}
    /\ resp.op = "team_dashboard"
    /\ resp.status = "FORBIDDEN"

\* C2: a caller all of whose assigned roles are inactive resolves to the empty
\* permission set and is answered Forbidden by whichever handler it calls.
C2_InactiveRolesGrantNothing ==
    [][ ( /\ resp' # NoResp
          /\ resp'.identity # None
          /\ \A r \in Assigned(Unwrap(resp'.identity).id) :
                 r \in DOMAIN roles => ~roles[r].is_active )
        => /\ Unwrap(resp'.identity).permissions = {}
           /\ resp'.status = "FORBIDDEN"
           /\ UNCHANGED store ]_vars

\* C2 witness: a role was deactivated by update_role while still assigned,
\* and its only holder is then answered Forbidden.
C2_Witness ==
    /\ Resolved
    /\ Assigned(Caller.id) # {}
    /\ \A r \in Assigned(Caller.id) : ~roles[r].is_active /\ roles[r].permissions # <<>>
    /\ \E i \in DOMAIN audit_logs :
           /\ audit_logs[i].action = "update"
           /\ audit_logs[i].resource_type = "role"
           /\ audit_logs[i].resource_id \in {Some(r) : r \in Assigned(Caller.id)}
    /\ Caller.permissions = {}
    /\ resp.status = "FORBIDDEN"

\* the valid existing role ids of a submitted list
ValidRoleIds(role_ids) ==
    {s.n : s \in {x \in Range(role_ids) : x.hex /\ x.n \in DOMAIN roles}}

\* C3: after a successful update_user on an existing user, that user's roles
\* are exactly the valid existing role ids of the submitted list, whatever
\* they were before.
C3_ReplaceAll ==
    [][ ( /\ resp' # NoResp
          /\ resp'.op = "update_user"
          /\ resp'.status = "SEE_OTHER"
          /\ Unwrap(resp'.target) \in DOMAIN users )
        => {r.role_id : r \in {x \in user_roles' : x.user_id = Unwrap(resp'.target)}}
              = ValidRoleIds(Unwrap(resp'.form).role_ids) ]_vars

\* C3 witness: the admin, who held the first role, was given a list naming
\* only the second role and now holds exactly the second role.
C3_Witness ==
    /\ Answered
    /\ resp.op = "update_user"
    /\ resp.status = "SEE_OTHER"
    /\ resp.target = Some(1)
    /\ 1 \in DOMAIN users
    /\ RoleBase + 1 \in DOMAIN roles
    /\ Assigned(1) = {RoleBase + 2}

\* C4: delete_role by a holder of team:manage_roles on an existing role answers
\* Conflict exactly when a user_roles row references the role; on Conflict the
\* roles and assignments are unchanged, otherwise the role's row is gone and
\* the request succeeds.
C4_DeleteRoleConflict ==
    [][ ( /\ resp' # NoResp
          /\ resp'.op = "delete_role"
          /\ resp'.identity # None
          /\ TeamManageRoles \in Unwrap(resp'.identity).permissions
          /\ Unwrap(resp'.target) \in DOMAIN roles )
        => LET R == Unwrap(resp'.target)
               referenced == \E x \in user_roles : x.role_id = R
           IN  /\ (resp'.status = "CONFLICT") <=> referenced
               /\ referenced => roles' = roles /\ user_roles' = user_roles
               /\ ~referenced =>
                     /\ resp'.status = "SEE_OTHER"
                     /\ DOMAIN roles' = (DOMAIN roles) \ {R}
                     /\ \A id \in DOMAIN roles' : roles'[id] = roles[id]
                     /\ user_roles' = user_roles ]_vars

\* C4 witness: an authorized caller was answered Conflict for a role a user
\* holds, and the role is still there.
C4_Witness ==
    /\ Resolved
    /\ resp.op = "delete_role"
    /\ resp.status = "CONFLICT"
    /\ TeamManageRoles \in Caller.permissions
    /\ Unwrap(resp.target) \in DOMAIN roles
    /\ \E x \in user_roles : x.role_id = Unwrap(resp.target)

\* C5: verify_token of the token create_token(uid, e) made, at any time before
\* its expiry (24 hours after issue), returns the claims sub = uid as a string,
\* email = e, iat = the time of issue and exp = iat + 86400.
C5_TokenRoundTrip ==
    ( /\ vres.called
      /\ jar # None
      /\ vres.token = Unwrap(jar)
      /\ vres.at < Unwrap(minted).at + TokenLifetime )
    => vres.result = Ok([sub |-> Uuid_to_string(Unwrap(minted).user_id),
                         email |-> Unwrap(minted).email,
                         iat |-> Unwrap(minted).at,
                         exp |-> Unwrap(minted).at + 86400])

\* C5 witness: the token of user 2 verified one second before its expiry,
\* after the clock has moved, returns user 2's claims.
C5_Witness ==
    /\ vres.called
    /\ jar # None
    /\ vres.token = Unwrap(jar)
    /\ Unwrap(minted).user_id = 2
    /\ Unwrap(minted).at > Epoch0
    /\ vres.at = Unwrap(minted).at + TokenLifetime - 1
    /\ vres.result.ok
    /\ Uuid_parse_str(Unwrap(vres.result.val).sub) = Ok(2)

\* C6: verify_token of an issued token fails at every time t >= exp (t = exp
\* and t = issue + 24h01m included), and once it has failed for expiry it
\* fails at every later time.
C6_ExpiredAtExp ==
    [][ /\ ( /\ vres'.called
             /\ jar # None
             /\ vres'.token = Unwrap(jar)
             /\ vres'.at >= Unwrap(jar).payload.exp )
           => ~vres'.result.ok
        /\ ( /\ jar # None
             /\ jar' = jar
             /\ verify_token(Unwrap(jar), now).err = "ExpiredSignature" )
           => verify_token(Unwrap(jar), now').err = "ExpiredSignature" ]_vars

\* the key each team-management operation asks for, as the claim lists them
RequiredKey(op) ==
    CASE op \in {"team_dashboard", "users_list"} -> TeamRead
      [] op \in {"user_form", "user_edit_form", "create_user", "update_user",
                 "lock_user", "unlock_user"} -> TeamWrite
      [] op = "delete_user" -> TeamDelete
      [] op \in {"roles_list", "role_form", "role_edit_form", "create_role",
                 "update_role", "delete_role"} -> TeamManageRoles

\* C7: a resolved identity is answered Forbidden exactly when its permissions
\* lack the key of the operation it called; holding another team key does not
\* open the gate.
C7_Gate ==
    Resolved =>
        ( (resp.status = "FORBIDDEN") <=> (RequiredKey(resp.op) \notin Caller.permissions) )

\* C7 witness: an identity holding exactly {team:read} is refused a team:write
\* operation.
C7_Witness ==
    /\ Resolved
    /\ Caller.permissions = {TeamRead}
    /\ resp.op = "update_user"
    /\ resp.status = "FORBIDDEN"

\* C8: a request without the auth_token cookie resolves to no identity, and a
\* request with no identity is answered Unauthorized with nothing written.
C8_NoCookieUnauthenticated ==
    [][ resp' # NoResp =>
          /\ resp'.cookie = None => resp'.identity = None
          /\ resp'.identity = None =>
                (resp'.status = "UNAUTHORIZED" /\ UNCHANGED store) ]_vars

\* C8 witness: lock_user on another, existing user without a cookie is
\* answered Unauthorized while the super admin account is available.
C8_Witness ==
    /\ Answered
    /\ resp.op = "lock_user"
    /\ resp.cookie = None
    /\ resp.status = "UNAUTHORIZED"
    /\ resp.target = Some(2)
    /\ 2 \in DOMAIN users
    /\ ~users[2].is_locked
    /\ get_super_admin_user # None

\* C9: lock_user on oneself while holding team:write, and delete_user on
\* oneself while holding team:delete, are answered BadRequest; the users
\* table and the audit log are unchanged.
C9_SelfActionGuard ==
    [][ ( /\ resp' # NoResp
          /\ resp'.identity # None
          /\ resp'.target = Some(Unwrap(resp'.identity).id)
          /\ \/ resp'.op = "lock_user" /\ TeamWrite \in Unwrap(resp'.identity).permissions
             \/ resp'.op = "delete_user" /\ TeamDelete \in Unwrap(resp'.identity).permissions )
        => /\ resp'.status = "BAD_REQUEST"
           /\ users' = users
           /\ user_roles' = user_roles
           /\ audit_logs' = audit_logs ]_vars

\* C9 witness: a user other than the super admin, holding team:write but not
\* team:delete, asked to lock itself and was answered BadRequest.
C9_Witness ==
    /\ Resolved
    /\ resp.op = "lock_user"
    /\ resp.target = Some(Caller.id)
    /\ Caller.id # 1
    /\ TeamWrite \in Caller.permissions
    /\ TeamDelete \notin Caller.permissions
    /\ resp.status = "BAD_REQUEST"
    /\ ~users[Caller.id].is_locked
    /\ users[Caller.id].locked_by = None

\* C10 as stated: lock_user and delete_user on oneself are answered BadRequest
\* whatever the caller's permissions.
C10_SelfActionAlwaysBadRequest ==
    ( /\ Resolved
      /\ resp.op \in {"lock_user", "delete_user"}
      /\ resp.target = Some(Caller.id) )
    => resp.status = "BAD_REQUEST"

\* C10 amended: lock_user and delete_user on oneself never succeed and write
\* nothing: the answer is Forbidden when the caller lacks the operation's key
\* and BadRequest when it holds it.
C10_SelfActionRejected ==
    [][ ( /\ resp' # NoResp
          /\ resp'.identity # None
          /\ resp'.op \in {"lock_user", "delete_user"}
          /\ resp'.target = Some(Unwrap(resp'.identity).id) )
        => /\ resp'.status =
                 IF RequiredKey(resp'.op) \in Unwrap(resp'.identity).permissions
                 THEN "BAD_REQUEST" ELSE "FORBIDDEN"
           /\ UNCHANGED store ]_vars

\* C10 witness: an identity without team:delete asked to delete itself and was
\* answered Forbidden.
C10_Witness ==
    /\ Resolved
    /\ resp.op = "delete_user"
    /\ resp.target = Some(Caller.id)
    /\ TeamDelete \notin Caller.permissions
    /\ resp.status = "FORBIDDEN"
    /\ Caller.id \in DOMAIN users

\* what a cookie says about its bearer: the token verifies now and its subject
\* spells a user id
Verifies(cookie) ==
    /\ cookie # None
    /\ Unwrap(cookie).wellformed
    /\ Unwrap(cookie).mac = HS256(JWT_SECRET, Unwrap(cookie).payload)
    /\ Unwrap(cookie).payload.exp >= now - Leeway
    /\ Unwrap(cookie).payload.sub.hex
Subject(cookie) == Unwrap(cookie).payload.sub.n
\* the user exists, is active and is not locked
Usable(u) == u \in DOMAIN users /\ users[u].is_active /\ ~users[u].is_locked
\* the fixed fallback account, when it is usable
Fallback == {u \in DOMAIN users : users[u].email = SuperAdminEmail /\ Usable(u)}

\* C11 as stated: a request whose token verifies and names a user that does not
\* exist, is inactive or is locked resolves to the fallback account whenever
\* that account is active and unlocked, and to no identity only otherwise.
C11_FallbackWhenUserMissing ==
    [][ ( /\ resp' # NoResp
          /\ Verifies(resp'.cookie)
          /\ ~Usable(Subject(resp'.cookie)) )
        => IF Fallback = {} THEN resp'.identity = None
           ELSE /\ resp'.identity # None
                /\ Unwrap(resp'.identity).id \in Fallback ]_vars

\* C11 amended: such a request resolves to no identity and is answered
\* Unauthorized with nothing written, whether or not the fallback account is
\* available.
C11_NoIdentityWhenUserMissing ==
    [][ ( /\ resp' # NoResp
          /\ Verifies(resp'.cookie)
          /\ ~Usable(Subject(resp'.cookie)) )
        => /\ resp'.identity = None
           /\ resp'.status = "UNAUTHORIZED"
           /\ UNCHANGED store ]_vars

\* C11 witness: user 2, locked by the admin, presents its own live token and
\* resolves to nobody while the fallback account is available.
C11_Witness ==
    /\ Answered
    /\ Verifies(resp.cookie)
    /\ Subject(resp.cookie) = 2
    /\ 2 \in DOMAIN users
    /\ users[2].is_locked
    /\ users[2].locked_by = Some(1)
    /\ Fallback # {}
    /\ resp.identity = None
    /\ resp.status = "UNAUTHORIZED"

\* a cookie is present and its token does not verify, or verifies with a
\* subject that is no user id
BadToken(cookie) == cookie # None /\ ~Verifies(cookie)
\* process p takes the step that leaves pc
Leaves(p, pc) == req[p].pc = pc /\ req'[p].pc # pc

\* C12: a request whose token is malformed, forged, expired or names no user
\* id resolves to the fallback account, with the permissions of that account's
\* active roles, exactly when that account exists, is active and is unlocked;
\* otherwise it resolves to nobody. It never resolves to another user.
C12_FallbackOnBadToken ==
    [][ \A p \in Procs :
          /\ (Leaves(p, "get_current_user") /\ BadToken(req[p].cookie)) =>
                IF Fallback = {}
                THEN /\ req'[p].pc = "done"
                     /\ req'[p].status = "UNAUTHORIZED"
                     /\ req'[p].identity = None
                ELSE /\ req'[p].user # None
                     /\ Unwrap(req'[p].user).id \in Fallback
                     /\ Unwrap(req'[p].user).email = SuperAdminEmail
          /\ (Leaves(p, "get_user_permissions") /\ BadToken(req[p].cookie)) =>
                /\ req'[p].identity # None
                /\ Unwrap(req'[p].identity).id = Unwrap(req[p].user).id
                /\ Unwrap(req'[p].identity).email = SuperAdminEmail
                /\ Unwrap(req'[p].identity).permissions =
                       KeysOf(ActiveAssigned(Unwrap(req[p].user).id)) ]_vars

\* C12 witness: a token naming user 2 under a foreign signature was resolved
\* to the super admin with the four team keys while user 2 is usable.
C12_Witness ==
    \E p \in Procs :
          /\ req[p].pc = "done"
          /\ req[p].cookie = Some(ForgedToken)
          /\ Usable(2)
          /\ req[p].identity # None
          /\ Unwrap(req[p].identity).id = 1
          /\ Unwrap(req[p].identity).permissions =
                 {TeamRead, TeamWrite, TeamDelete, TeamManageRoles}
          /\ req[p].status = "OK"

\* the eight operations that write
Mutating == {"create_user", "update_user", "lock_user", "unlock_user",
             "delete_user", "create_role", "update_role", "delete_role"}

\* C13: the step at which a mutating handler writes its audit entry ends the
\* request with the success redirect and leaves users, roles and user_roles as
\* the mutation put them, whether or not the entry was inserted; only the
\* audit log differs between the two outcomes.
C13_AuditBestEffort ==
    [][ \A p \in Procs :
          Leaves(p, "audit") =>
             /\ req[p].op \in Mutating
             /\ req'[p].pc = "done"
             /\ req'[p].status = "SEE_OTHER"
             /\ users' = users /\ roles' = roles /\ user_roles' = user_roles
             /\ req'[p].audited = "failed" => audit_logs' = audit_logs ]_vars

\* C13 witness: the admin locked user 2, the audit insert failed, the request
\* was answered with the redirect and user 2 is locked with no entry written.
C13_Witness ==
    \E p \in Procs :
        /\ req[p].pc = "done"
        /\ req[p].op = "lock_user"
        /\ req[p].audited = "failed"
        /\ req[p].status = "SEE_OTHER"
        /\ users[2].is_locked
        /\ users[2].locked_by = Some(1)
        /\ \A i \in DOMAIN audit_logs : audit_logs[i].action # "lock"

\* C14: no lock_user or unlock_user request changes is_locked of the user it
\* was resolved as, in any interleaving of requests.
C14_NoSelfLockChange ==
    [][ \A p \in Procs :
          ( /\ Leaves(p, "lock_user_update") \/ Leaves(p, "unlock_user_update")
            /\ Me(p) \in DOMAIN users )
          => users'[Me(p)].is_locked = users[Me(p)].is_locked ]_vars

\* a list without a repeated element
NoDuplicates(list) == \A i, j \in DOMAIN list : list[i] = list[j] => i = j

\* C15: in every state reached by create_role and update_role with whatever
\* permission lists were submitted, no role's stored permissions repeats a key.
C15_RolePermissionsDeduplicated ==
    \A id \in DOMAIN roles : NoDuplicates(roles[id].permissions)

\* C16: what verify_token answers for an issued token is fixed by the token and
\* the clock alone: Ok with the token's claims up to exp plus the leeway, an
\* expiry error after, whether the cookie jar still holds the token or logout
\* emptied it, and whether its session row was written, was not, or has expired.
C16_TokenValidityStateless ==
    (vres.called /\ minted # None /\ vres.token = Kept)
    => vres.result = IF vres.at > Kept.payload.exp + Leeway
                     THEN Err("ExpiredSignature")
                     ELSE Ok(Kept.payload)

\* C16 witness: after logout, and after the session row written at login has
\* expired, the token still verifies as user 2.
C16_Witness ==
    /\ vres.called
    /\ minted # None
    /\ vres.token = Kept
    /\ jar = None
    /\ sessions # <<>>
    /\ \A i \in DOMAIN sessions :
          sessions[i].user_id = 2 /\ sessions[i].expires_at < vres.at
    /\ vres.result.ok
    /\ Unwrap(vres.result.val).sub = Uuid_to_string(2)

\* C17: every store call of an identity resolution reads the tables as the
\* last committed statement left them: the user query finds the user only if
\* it is active and unlocked now, and the permission query returns exactly the
\* keys of the roles that are assigned and active now. A resolution that
\* starts after update_role, update_user, lock_user or delete_user committed
\* therefore sees no key and no unlocked status the commit removed.
C17_ResolutionReadsCurrentStore ==
    [][ \A p \in Procs :
          /\ (Leaves(p, "get_current_user") /\ Verifies(req[p].cookie)) =>
                IF Usable(Subject(req[p].cookie))
                THEN req'[p].user = Some(users[Subject(req[p].cookie)])
                ELSE req'[p].pc = "done" /\ req'[p].status = "UNAUTHORIZED"
          /\ Leaves(p, "get_user_permissions") =>
                LET keys == KeysOf(ActiveAssigned(Unwrap(req[p].user).id))
                    cu == Unwrap(req'[p].identity)
                IN  /\ cu.permissions = keys
                    /\ cu.has_team_read = (TeamRead \in keys)
                    /\ cu.has_team_write = (TeamWrite \in keys)
                    /\ cu.has_team_delete = (TeamDelete \in keys)
                    /\ cu.has_manage_roles = (TeamManageRoles \in keys) ]_vars

\* C17 witness: update_role took the team keys off sam's role and returned;
\* sam's request that came after resolved to the customer keys only and was
\* refused the dashboard. (With lock_user: see C11's witness.)
C17_Witness ==
    /\ req[1].op = "update_role"
    /\ req[1].pc = "done"
    /\ req[1].status = "SEE_OTHER"
    /\ req[2].op = "team_dashboard"
    /\ req[2].cookie = Sam
    /\ req[2].pc = "done"
    /\ req[2].status = "FORBIDDEN"
    /\ Unwrap(req[2].identity).permissions = {"customers:read", "customers:write"}

Rank(k) == CHOOSE i \in DOMAIN KeyOrder : KeyOrder[i] = k
Sorted(list) == \A i, j \in DOMAIN list : i < j => Rank(list[i]) <= Rank(list[j])

\* C18: the list get_user_permissions returns is in ascending key order and
\* repeats no key, whichever active roles the user holds.
C18_PermissionsSortedDeduplicated ==
    (fetched # None /\ resp = NoResp)
        => Sorted(Unwrap(fetched)) /\ NoDuplicates(Unwrap(fetched))

\* a response by which the gate turned the request away: no identity, the
\* required key missing, or the self-action guard of lock_user / delete_user
Rejected(r) ==
    \/ r.status \in {"UNAUTHORIZED", "FORBIDDEN"}
    \/ /\ r.status = "BAD_REQUEST"
       /\ r.op \in {"lock_user", "delete_user"}
       /\ r.identity # None
       /\ r.target = Some(Unwrap(r.identity).id)

\* C19: a request answered Unauthorized, Forbidden, or BadRequest by a
\* self-action guard leaves users, roles, user_roles and audit_logs exactly
\* as they were before the request.
C19_RejectionChangesNothing ==
    [][ (resp = NoResp /\ resp' # NoResp /\ Rejected(resp'))
        => /\ users' = users
           /\ roles' = roles
           /\ user_roles' = user_roles
           /\ audit_logs' = audit_logs ]_vars

\* C19 witness: a user other than the super admin, lacking team:manage_roles,
\* asked to delete an existing role once the audit log had entries, and was
\* answered Forbidden.
C19_Witness ==
    /\ Resolved
    /\ resp.op = "delete_role"
    /\ resp.status = "FORBIDDEN"
    /\ Caller.id # 1
    /\ resp.target # None
    /\ Unwrap(resp.target) \in DOMAIN roles
    /\ audit_logs # <<>>

\* the action and resource_type the claim expects of each mutating operation
Named(op) ==
    CASE op = "create_user" -> <<"create", "user">>
      [] op = "update_user" -> <<"update", "user">>
      [] op = "lock_user"   -> <<"lock", "user">>
      [] op = "unlock_user" -> <<"unlock", "user">>
      [] op = "delete_user" -> <<"delete", "user">>
      [] op = "create_role" -> <<"create", "role">>
      [] op = "update_role" -> <<"update", "role">>
      [] op = "delete_role" -> <<"delete", "role">>

\* the statements after which a handler reaches its create_audit_log call:
\* its primary statement, or the role loop that follows it
PrimaryDone(op) ==
    CASE op = "create_user" -> {"create_user_insert", "insert_role"}
      [] op = "update_user" -> {"update_user_delete_roles", "insert_role"}
      [] op = "lock_user"   -> {"lock_user_update"}
      [] op = "unlock_user" -> {"unlock_user_update"}
      [] op = "delete_user" -> {"delete_user_delete"}
      [] op = "create_role" -> {"create_role_insert"}
      [] op = "update_role" -> {"update_role_update"}
      [] op = "delete_role" -> {"delete_role_delete"}

\* C20: the audit log only grows, one entry at a time; an entry is appended
\* only by a mutating operation that ends in success, once per request, with
\* the caller's id as actor, the operation's action and resource_type and the
\* target as resource_id; the append comes only after the operation's primary
\* statement has run, and an operation that ends otherwise appends nothing.
C20_AuditTrail ==
    [][ /\ Len(audit_logs') \in {Len(audit_logs), Len(audit_logs) + 1}
        /\ SubSeq(audit_logs', 1, Len(audit_logs)) = audit_logs
        /\ audit_logs' # audit_logs =>
              \E p \in Procs :
                 LET e == audit_logs'[Len(audit_logs')]
                 IN  /\ req[p].op \in Mutating
                     /\ req[p].pc = "audit"
                     /\ req'[p].pc = "done"
                     /\ req'[p].status = "SEE_OTHER"
                     /\ \A q \in Procs \ {p} : req'[q] = req[q]
                     /\ e.user_id = Unwrap(req[p].identity).id
                     /\ <<e.action, e.resource_type>> = Named(req[p].op)
                     /\ e.resource_id = req[p].target
                     /\ e.resource_id # None
        /\ \A p \in Procs :
              /\ (req'[p].pc = "audit" /\ req[p].pc # "audit")
                    => /\ req[p].op \in Mutating
                       /\ req[p].pc \in PrimaryDone(req[p].op)
              /\ req[p].pc = "audit" => req'[p].pc \in {"audit", "done"}
              /\ (req'[p].pc = "done" /\ req[p].pc # "done" /\ req'[p].status # "SEE_OTHER")
                    => /\ req[p].pc # "audit"
                       /\ audit_logs' = audit_logs ]_vars

\* C20 witness: delete_role was refused with Conflict and wrote no entry, and
\* the super admin's lock of user 2 appended the one new entry, after the
\* UPDATE had set the lock.
C20_Witness ==
    /\ req[1].op = "delete_role"
    /\ req[1].pc = "done"
    /\ req[1].status = "CONFLICT"
    /\ req[2].op = "lock_user"
    /\ req[2].pc = "done"
    /\ req[2].status = "SEE_OTHER"
    /\ Len(audit_logs) = 3
    /\ audit_logs[3] = [user_id |-> 1, action |-> "lock", resource_type |-> "user",
                        resource_id |-> Some(2)]
    /\ 2 \in DOMAIN users
    /\ users[2].is_locked

\* the roles a user is assigned in a set of user_roles rows
RolesIn(rows, user_id) == {r.role_id : r \in {x \in rows : x.user_id = user_id}}
\* the ids of a submitted list that parse as a UUID and name a role in the store
ValidIds(role_ids) ==
    {Unwrap(Uuid_parse_str(role_ids[i]).val) :
        i \in {j \in DOMAIN role_ids : Uuid_parse_str(role_ids[j]).ok}} \cap DOMAIN roles

\* C21: create_user and update_user by a holder of team:write succeed whatever
\* the role list holds (only the password check and a taken email refuse
\* them), and afterwards the user is assigned exactly the ids of the list that
\* are well-formed and name an existing role: every valid id, no skipped one.
C21_BadRoleIdsSkipped ==
    [][ ( /\ resp = NoResp
          /\ resp' # NoResp
          /\ resp'.op \in {"create_user", "update_user"}
          /\ resp'.identity # None
          /\ TeamWrite \in Unwrap(resp'.identity).permissions )
        => LET f == Unwrap(resp'.form)
               create == resp'.op = "create_user"
               u == IF create THEN nextUserId ELSE Unwrap(resp'.target)
               refused == \/ /\ create
                             /\ \/ f.password = None
                                \/ Len(Unwrap(f.password)) < MinPasswordLen
                          \/ /\ create \/ u \in DOMAIN users
                             /\ email_taken(f.email, u)
           IN  /\ ~refused => resp'.status = "SEE_OTHER"
               /\ (resp'.status = "SEE_OTHER" /\ u \in DOMAIN users')
                     => RolesIn(user_roles', u) = ValidIds(f.role_ids)
               /\ (resp'.status = "SEE_OTHER" /\ u \notin DOMAIN users')
                     => RolesIn(user_roles', u) = {} ]_vars

\* C21 witness: create_user with the list <<second role, not a UUID, second
\* role>> succeeded and the new user holds the second role, once.
C21_Witness ==
    /\ Resolved
    /\ resp.op = "create_user"
    /\ resp.status = "SEE_OTHER"
    /\ Unwrap(resp.form).role_ids = <<SecondRole, NotAUuid, SecondRole>>
    /\ 2 \in DOMAIN users
    /\ RolesIn(user_roles, 2) = {RoleBase + 2}
    /\ Cardinality({r \in user_roles : r.user_id = 2}) = 1

\* update_user request q on user u has deleted u's rows and inserted none yet
InWindow(q, u) ==
    /\ req[q].op = "update_user"
    /\ Target(q) = u
    /\ req[q].pc = "insert_role"
    /\ req[q].todo = Form(q).role_ids
\* update_user request r on user u has inserted no row so far
NothingInserted(r, u) ==
    (req[r].op = "update_user" /\ Target(r) = u) =>
        \/ Form(r).role_ids = <<>>
        \/ req[r].pc \in {"get_current_user", "get_user_permissions",
                          "update_user_update", "update_user_delete_roles"}
        \/ req[r].pc = "insert_role" /\ req[r].todo = Form(r).role_ids
        \/ req[r].pc = "done" /\ req[r].status # "SEE_OTHER"

\* C22: update_user's DELETE of the user's rows is a step of its own: when the
\* new list is not empty the user is left with no role until the first INSERT
\* runs, and a resolution of that user whose permission query runs in between
\* gets the empty permission set and is refused the team dashboard.
C22_RoleReplaceNotAtomic ==
    [][ \A p \in Procs :
          /\ (Leaves(p, "update_user_delete_roles") /\ Form(p).role_ids # <<>>) =>
                /\ {r \in user_roles' : r.user_id = Target(p)} = {}
                /\ req'[p].pc = "insert_role"
                /\ req'[p].todo = Form(p).role_ids
          /\ ( /\ Leaves(p, "get_user_permissions")
               /\ \E q \in Procs \ {p} : InWindow(q, Unwrap(req[p].user).id)
               /\ \A r \in Procs \ {p} : NothingInserted(r, Unwrap(req[p].user).id) )
             => /\ Unwrap(req'[p].identity).permissions = {}
                /\ req[p].op = "team_dashboard" =>
                      (req'[p].pc = "done" /\ req'[p].status = "FORBIDDEN") ]_vars

\* C22 witness: the super admin's update_user moving sam from the Sales role to
\* the Admin role (both active, both granting team:read) has run its DELETE and
\* no INSERT yet, and sam's dashboard request, resolved in between, got no
\* permission and was answered Forbidden.
C22_Witness ==
    /\ InWindow(1, 2)
    /\ Form(1).role_ids = <<FirstRole>>
    /\ \A id \in {RoleBase + 1, RoleBase + 2} :
          /\ id \in DOMAIN roles
          /\ roles[id].is_active
          /\ TeamRead \in Range(roles[id].permissions)
    /\ req[2].op = "team_dashboard"
    /\ req[2].cookie = Sam
    /\ req[2].pc = "done"
    /\ req[2].status = "FORBIDDEN"
    /\ Unwrap(req[2].identity).id = 2
    /\ Unwrap(req[2].identity).permissions = {}

\* C23: update_user, lock_user, unlock_user, delete_user, update_role and
\* delete_role called by a holder of the required key on an id that names no
\* user or role are answered NotFound, change no table and write no audit
\* entry.
C23_AbsentTargetNotFound ==
    [][ ( /\ resp = NoResp
          /\ resp' # NoResp
          /\ resp'.identity # None
          /\ \/ /\ resp'.op \in {"update_user", "lock_user", "unlock_user", "delete_user"}
                /\ Unwrap(resp'.target) \notin DOMAIN users
             \/ /\ resp'.op \in {"update_role", "delete_role"}
                /\ Unwrap(resp'.target) \notin DOMAIN roles
          /\ RequiredKey(resp'.op) \in Unwrap(resp'.identity).permissions )
        => /\ resp'.status = "NOT_FOUND"
           /\ UNCHANGED store ]_vars

\* C24: a store call other than the audit insert that fails ends the request
\* at once with 500; the handler takes no later step on an empty or zero
\* result.
C24_StoreFailuresSurface ==
    [][ \A p \in Procs :
          (req'[p].failed /\ ~req[p].failed)
             => (req'[p].pc = "done" /\ req'[p].status = "INTERNAL_SERVER_ERROR") ]_vars

\* C25: login answers with the auth_token cookie (HttpOnly, path /, max-age
\* 24 hours, holding a token for the account) exactly when an account with the
\* submitted email exists, is active, is not locked and its stored hash is the
\* hash of the submitted password; otherwise it answers 401 with no cookie, and
\* the cookie jar and the sessions table stay as they were.
C25_LoginOnlyUsableAccount ==
    [][ (resp = NoResp /\ resp' # NoResp /\ resp'.op = "login")
        => LET f == Unwrap(resp'.form)
               usable == {id \in DOMAIN users :
                             /\ users[id].email = f.email
                             /\ users[id].is_active
                             /\ ~users[id].is_locked
                             /\ users[id].password_hash = hash_password(f.password)}
           IN  IF usable # {}
               THEN /\ resp'.status = "SEE_OTHER"
                    /\ set_cookie' # None
                    /\ LET c == Unwrap(set_cookie')
                       IN  /\ c.name = "auth_token"
                           /\ c.http_only
                           /\ c.path = "/"
                           /\ c.max_age = 24 * 3600
                           /\ c.value.payload.sub \in {Uuid_to_string(id) : id \in usable}
                           /\ c.value.payload.exp = now + c.max_age
                           /\ verify_token(c.value, now).ok
               ELSE /\ resp'.status = "UNAUTHORIZED"
                    /\ set_cookie' = None
                    /\ jar' = jar
                    /\ sessions' = sessions ]_vars

\* C25 witness: after a login that was given a cookie and a session row, a
\* login with the right password for an active account that is locked was
\* answered 401 with no cookie.
C25_Witness ==
    /\ resp # NoResp
    /\ resp.op = "login"
    /\ resp.status = "UNAUTHORIZED"
    /\ set_cookie = None
    /\ Len(sessions) = 1
    /\ \E id \in DOMAIN users :
          /\ users[id].email = Unwrap(resp.form).email
          /\ users[id].password_hash = hash_password(Unwrap(resp.form).password)
          /\ users[id].is_active
          /\ users[id].is_locked

\* the effective permission set of a user, read off the tables
EffectivePermissions(u) == KeysOf(ActiveAssigned(u))

\* the effective permission sets before any request: the super admin holds
\* the Admin role, sam the Sales role (team:read, team:write)
InitialPermissions(u) ==
    IF u = 1 THEN Range(AdminPermissions)
    ELSE IF u = 2 THEN {TeamRead, TeamWrite}
    ELSE {}

\* C26: requests by identities that lack team:manage_roles add no permission
\* key to the effective permission set of any user, the caller included: as
\* long as no holder of team:manage_roles has acted, every user holds at most
\* the keys held before.
C26_OnlyManageRolesGrants ==
    (\A p \in Procs :
        req[p].identity # None =>
            TeamManageRoles \notin Unwrap(req[p].identity).permissions)
    => \A u \in DOMAIN users : EffectivePermissions(u) \subseteq InitialPermissions(u)

\* C27: the permissions a team view shows for a user are, as a set, the
\* effective permissions identity resolution computes for that user on the
\* same store, whichever of the assigned roles are active.
C27_ViewShowsEffectivePermissions ==
    (fetched # None /\ resp.op = "get_user_with_roles")
        => Range(Unwrap(fetched)) = get_user_permissions(Unwrap(resp.target))

\* C28: for every user, is_locked holds exactly when locked_by is set and
\* exactly when locked_at is set, and locked_by is never the user's own id; a
\* lock_user that succeeds on an existing user records its caller's id, and
\* locked_by is set by nothing else. This holds along every sequence of
\* create_user, register, update_user, lock_user and unlock_user.
C28_LockBookkeeping ==
    /\ [](\A id \in DOMAIN users :
             /\ users[id].is_locked <=> users[id].locked_by # None
             /\ users[id].is_locked <=> users[id].locked_at # None
             /\ users[id].locked_by # Some(id))
    /\ [][ \A id \in DOMAIN users' :
             LET before == IF id \in DOMAIN users THEN users[id].locked_by ELSE None
             IN  (users'[id].locked_by # before /\ users'[id].locked_by # None)
                    => /\ resp'.op = "lock_user"
                       /\ resp'.status = "SEE_OTHER"
                       /\ resp'.target = Some(id)
                       /\ users'[id].locked_by = Some(Unwrap(resp'.identity).id) ]_vars

\* C28 witness: the super admin's account is locked, with the lock recorded
\* as issued by user 2, whose lock_user request has just been answered.
C28_Witness ==
    /\ Resolved
    /\ resp.op = "lock_user"
    /\ resp.status = "SEE_OTHER"
    /\ Caller.id = 2
    /\ resp.target = Some(1)
    /\ users[1].is_locked
    /\ users[1].locked_by = Some(2)
    /\ users[1].locked_at # None

\* C29: no create_user, update_user, lock_user, unlock_user or delete_user
\* request of a resolved identity X that holds a role leaves user X locked,
\* inactive, deleted or without any assigned role.
C29_ActorKeepsOwnAccess ==
    [][ ( /\ resp = NoResp
          /\ resp' # NoResp
          /\ resp'.identity # None
          /\ resp'.op \in {"create_user", "update_user", "lock_user",
                           "unlock_user", "delete_user"}
          /\ Assigned(Unwrap(resp'.identity).id) # {} )
        => LET X == Unwrap(resp'.identity).id
           IN  /\ X \in DOMAIN users'
               /\ users'[X].is_active
               /\ ~users'[X].is_locked
               /\ RolesIn(user_roles', X) # {} ]_vars

====
